---- MODULE Spec2Model ----
(***************************************************************************)
(* Scoring and matching engine of the staffing tool (src/app.py).          *)
(*                                                                         *)
(* Python floats are IEEE-754 doubles.  Every float expression of the      *)
(* scoring functions is modelled by its exact rational value, kept as a    *)
(* scaled integer, together with the places where the double result is     *)
(* on the other side of a rounding or comparison boundary than the exact   *)
(* value.  Those places were obtained by evaluating the source expression  *)
(* in double arithmetic over the whole input range of the model; they all  *)
(* lie on exact ties (x.5 before round(), equal products before >).        *)
(***************************************************************************)
EXTENDS Integers, Sequences, FiniteSets, TLC

VARIABLES
    wl_in,      \* calculate_workload_score: the argument pairs of two calls
    wl_out,     \* calculate_workload_score: the results returned so far
    sf_in,      \* calculate_skill_fit: the arguments
    sf_out,     \* calculate_skill_fit: the result, once returned
    fs_in,      \* calculate_final_score: the arguments
    fs_out,     \* calculate_final_score: the result, once returned
    clock,      \* datetime.now(): [year, month]
    sim_in,     \* calculate_project_similarity: the arguments
    sim_pc,     \* calculate_project_similarity: "call", "loop" or "returned"
    sim_i,      \* the number of experiences the loop has been through
    sim_best,   \* the locals best_similarity and best_match_info
    sim_seen,   \* the local similarity of every pass so far
    sim_recency,    \* the local recency of every pass so far
    sim_ret,    \* the returned (score, best_match_info)
    consultants,    \* the store: Consultant.query.all(), in query order
    match_req,      \* the request of the match page
    match_scored,   \* match: results as appended, before the sort
    match_results,  \* match: results as rendered
    call_in,    \* one call of a helper function: its name and arguments
    call_out,   \* what that call returned or raised
    db,         \* the database tables the consultant page writes
    handled,    \* the number of requests the consultant page has handled
    last        \* the last request handled and what became of it

vars == <<wl_in, wl_out, sf_in, sf_out, fs_in, fs_out,
          clock, sim_in, sim_pc, sim_i, sim_best, sim_seen, sim_recency, sim_ret,
          consultants, match_req, match_scored, match_results,
          call_in, call_out, db, handled, last>>

wlVars == <<wl_in, wl_out>>
sfVars == <<sf_in, sf_out>>
fsVars == <<fs_in, fs_out>>
simVars == <<clock, sim_in, sim_pc, sim_i, sim_best, sim_seen, sim_recency, sim_ret>>
matchVars == <<consultants, match_req, match_scored, match_results>>
callVars == <<call_in, call_out>>
storeVars == <<db, handled, last>>

\* A function that is not called in a specification, or has not returned yet.
Unused == [used |-> FALSE]
NotReturned == [returned |-> FALSE]
Returned(value) == [returned |-> TRUE, value |-> value]
\* The call ended with an exception.
Raised(exception) == [returned |-> FALSE, raised |-> exception]

\* The clock, calculate_project_similarity and the match page when a
\* specification does not use them.
ClockUnused == clock = [year |-> 0, month |-> 0]
MatchUnused ==
    /\ consultants = <<>> /\ match_req = Unused
    /\ match_scored = <<>> /\ match_results = NotReturned
SimilarityUnused ==
    /\ sim_in = Unused /\ sim_pc = "unused" /\ sim_i = 0
    /\ sim_best = Unused /\ sim_seen = <<>> /\ sim_recency = <<>>
    /\ sim_ret = NotReturned
\* The helper calls and the consultant page.
CallUnused == call_in = Unused /\ call_out = NotReturned
StoreUnused == db = Unused /\ handled = 0 /\ last = Unused

(***************************************************************************)
(* Python values that reach the scoring functions.                         *)
(***************************************************************************)
None == [k |-> "None", v |-> 0]
PyInt(n) == [k |-> "int", v |-> n]

\* Truthiness of an int-or-None value: None and 0 are falsy.
Truthy(x) == x.k = "int" /\ x.v # 0

\* "x or 0" followed by int(): None and 0 give 0, an int gives itself.
IntOrZero(x) == IF Truthy(x) THEN x.v ELSE 0

Min(a, b) == IF a < b THEN a ELSE b
Max(a, b) == IF a > b THEN a ELSE b

\* round() of the exact non-negative rational num/den: nearest integer, an
\* exact half goes to the even neighbour.
RoundHalfEven(num, den) ==
    LET q  == num \div den
        r2 == 2 * (num % den)
    IN  IF r2 > den THEN q + 1
        ELSE IF r2 < den THEN q
        ELSE IF q % 2 = 0 THEN q ELSE q + 1

\* round() of a double whose exact value num/den is a tie but whose double
\* value is not: the neighbour that round-half-even does not pick.
RoundFloat(num, den, off_tie) ==
    LET q  == num \div den
        he == RoundHalfEven(num, den)
    IN  IF off_tie /\ 2 * (num % den) = den
        THEN (IF he = q THEN q + 1 ELSE q)
        ELSE he

(***************************************************************************)
(* calculate_workload_score                                                *)
(***************************************************************************)
\* max_score = 23.0, in tenths.
MaxScoreTenths == 230

\* Mutant: workload_percent is not capped at 100.
calculate_workload_score_mut_nocap(work_days, perceived_load) ==
    LET wd == Max(0, IntOrZero(work_days))
        pl == Max(0, Min(10, IntOrZero(perceived_load)))
        tenths == 10 * wd + 3 * pl
        workload_percent == RoundHalfEven(tenths * 100, MaxScoreTenths)
    IN  [workload_score       |-> tenths,
         workload_percent     |-> workload_percent,
         availability_percent |-> 100 - workload_percent,
         work_days            |-> wd,
         perceived_load       |-> pl]

\* Mutant: availability is floored at 0 and taken from the uncapped percentage.
calculate_workload_score_mut_avail(work_days, perceived_load) ==
    LET wd == Max(0, IntOrZero(work_days))
        pl == Max(0, Min(10, IntOrZero(perceived_load)))
        tenths == 10 * wd + 3 * pl
        uncapped == RoundHalfEven(tenths * 100, MaxScoreTenths)
    IN  [workload_score       |-> tenths,
         workload_percent     |-> uncapped,
         availability_percent |-> Max(0, 100 - uncapped),
         work_days            |-> wd,
         perceived_load       |-> pl]

\* Mutant: an out-of-range perceived_load is reset to 0 instead of clamped.
calculate_workload_score_mut_reset(work_days, perceived_load) ==
    LET wd == Max(0, IntOrZero(work_days))
        raw == IntOrZero(perceived_load)
        pl == IF raw < 0 \/ raw > 10 THEN 0 ELSE raw
        tenths == 10 * wd + 3 * pl
        workload_percent == Min(100, RoundHalfEven(tenths * 100, MaxScoreTenths))
    IN  [workload_score       |-> tenths,
         workload_percent     |-> workload_percent,
         availability_percent |-> 100 - workload_percent,
         work_days            |-> wd,
         perceived_load       |-> pl]

\* workload_score is kept in tenths (230 stands for 23.0): round(x, 1) of
\* work_days + perceived_load * 0.3 is exactly (10*work_days + 3*perceived_load)/10.
\* workload_score / 23 * 100 is never an exact half (23 is odd), and the
\* double never crosses a half.
calculate_workload_score(work_days, perceived_load) ==
    LET wd == Max(0, IntOrZero(work_days))
        pl == Max(0, Min(10, IntOrZero(perceived_load)))
        tenths == 10 * wd + 3 * pl
        workload_percent == Min(100, RoundHalfEven(tenths * 100, MaxScoreTenths))
    IN  [workload_score       |-> tenths,
         workload_percent     |-> workload_percent,
         availability_percent |-> 100 - workload_percent,
         work_days            |-> wd,
         perceived_load       |-> pl]

(***************************************************************************)
(* calculate_skill_fit                                                     *)
(***************************************************************************)
\* Skill levels are 1..5 (ConsultantSkill.level); 60 is a common denominator
\* of every ratio consultant_level / required_level.
MaxLevel == 5
RatioDen == 60

\* consultant_skills_dict.get(skill_id, 0)
DictGet(d, key, default) == IF key \in DOMAIN d THEN d[key] ELSE default

RECURSIVE SumSeq(_)
SumSeq(s) == IF s = <<>> THEN 0 ELSE s[1] + SumSeq(Tail(s))

\* Mutant: the ratio is not capped at 1.
per_skill_score_mut_nocap(consultant_level, required_level) ==
    IF required_level > 0
    THEN (RatioDen * consultant_level) \div required_level
    ELSE (IF consultant_level > 0 THEN RatioDen ELSE 0)

\* One entry of per_skill_scores, in sixtieths.
per_skill_score(consultant_level, required_level) ==
    IF required_level > 0
    THEN Min(RatioDen, (RatioDen * consultant_level) \div required_level)
    ELSE (IF consultant_level > 0 THEN RatioDen ELSE 0)

\* sum(per_skill_scores) / len(per_skill_scores) * 100 in doubles: with up to
\* three required skills the only mean that is an exact x.5 and whose double
\* is not is 0.4 and 0.75 (57.5 computed as 57.49999999999999).
SkillFitOffTie(scores) ==
    scores \in {<<24, 45>>, <<45, 24>>}

\* Mutant: a required skill the consultant does not hold is skipped
\* instead of counted as level 0.
calculate_skill_fit_mut_skip_absent(consultant_skills_dict, required_skills) ==
    IF required_skills = <<>>
    THEN 100
    ELSE LET held == SelectSeq(required_skills,
                               LAMBDA r : r[1] \in DOMAIN consultant_skills_dict)
             per_skill_scores ==
                 [i \in 1..Len(held) |->
                     per_skill_score(consultant_skills_dict[held[i][1]], held[i][2])]
         IN  IF held = <<>> THEN 0
             ELSE RoundFloat(100 * SumSeq(per_skill_scores),
                             RatioDen * Len(per_skill_scores),
                             SkillFitOffTie(per_skill_scores))

calculate_skill_fit(consultant_skills_dict, required_skills) ==
    IF required_skills = <<>>
    THEN 100
    ELSE LET per_skill_scores ==
                 [i \in 1..Len(required_skills) |->
                     per_skill_score(DictGet(consultant_skills_dict, required_skills[i][1], 0),
                                     required_skills[i][2])]
         IN  RoundFloat(100 * SumSeq(per_skill_scores),
                        RatioDen * Len(per_skill_scores),
                        SkillFitOffTie(per_skill_scores))

(***************************************************************************)
(* calculate_final_score                                                   *)
(***************************************************************************)
\* Inputs (skill_fit, availability[, project_experience]) in 0..100, coded
\* (skill_fit * 101 + availability) [* 101 + project_experience], whose
\* weighted sum is an exact x.5 while the double sum of the rounded products
\* lies on the other side of it than round-half-even would go
\* (0.65*0 + 0.35*90 = 31.499999999999996 gives 31, not 32).
FinalOffTies2 == {
    90, 172, 214, 294, 376, 702, 866, 3132, 5254, 7784, 9294}

FinalOffTies3 == {
    149, 248, 486, 981, 2327, 2426, 3654, 4149, 5773, 5853, 6268, 6308, 6803, 7298,
    7793, 8288, 8328, 8823, 9318, 9714, 9813, 10571, 11422, 14551, 19898, 20498, 21686, 21824,
    22181, 22834, 22874, 23567, 24062, 24359, 24557, 24854, 25052, 25250, 26062, 27587, 28082, 29607,
    35474, 35514, 35573, 35969, 36009, 36049, 36068, 36108, 36365, 36405, 36445, 36464, 36504, 36544,
    36563, 36603, 36900, 36940, 36999, 37039, 37098, 37395, 37435, 37494, 37534, 37593, 37890, 37930,
    37989, 38029, 38088, 38128, 38385, 38425, 38484, 38524, 38583, 38623, 38920, 39019, 39118, 39415,
    39514, 39613, 39910, 40009, 40108, 40306, 40346, 40386, 40405, 40504, 40603, 43242, 43658, 43737,
    44153, 44648, 45658, 45698, 46193, 46589, 46629, 46688, 47084, 47124, 47183, 47579, 47619, 47678,
    47718, 48114, 48213, 48609, 48708, 49104, 49203, 49599, 49698, 51981, 52832, 52872, 53367, 54159,
    54654, 55149, 55684, 55724, 56179, 56219, 56773, 56813, 57268, 57308, 57803, 58298, 58793, 59288,
    65868, 65948, 66363, 66403, 70938, 70978, 71136, 71176, 72923, 73953, 74448, 74943, 78092, 78587,
    81221, 81261, 81301, 81919, 83048, 83543, 86474, 86514, 86969, 87009, 87286, 87504, 87781, 87821,
    87999, 88276, 88316, 88494, 88811, 88989, 89306, 89801, 90296, 91306, 91346, 91386, 94242, 96658,
    96698, 97193, 97589, 97629, 97688, 98084, 98124, 98183, 98223, 98579, 98619, 98678, 98718, 99114,
    99213, 99609, 99708, 100104, 100203, 100599, 100698, 103832, 105654, 105694, 105734, 106189, 106229, 106684,
    106724, 107179, 107219, 107773, 107813, 108308, 108803, 109298, 109793, 111318, 111358, 111398, 111813, 111853,
    111893, 112214, 112313, 113343, 113838, 114333, 116056, 116096, 116591, 121938, 121978, 122933, 123428, 129092,
    129587, 131231, 131271, 131726, 131766, 132221, 132261, 132301, 134048, 134543, 137474, 137514, 137969, 138009,
    138286, 138504, 138781, 138999, 139494, 139989, 142346, 142386, 142945, 143143, 143638, 144133, 144232, 144331,
    145856, 145896, 146351, 146391, 146886, 147381, 147876, 147916, 148371, 148411, 148589, 148906, 149084, 149401,
    149896, 150391, 156159, 156199, 156239, 156654, 156694, 156734, 157189, 157229, 157684, 157724, 158179, 158219,
    158773, 158813, 159308, 159803, 160298, 160793, 161328, 161368, 161823, 161863, 162318, 162358, 162398, 162813,
    162853, 162893, 163848, 164343, 164838, 166066, 166561, 166601, 167056, 167096, 167591, 172938, 172978, 173438,
    173537, 173735, 173933, 174032, 174131, 174230, 174428, 175557, 176052, 176151, 176191, 176686, 177181, 177676,
    178171, 178211, 178706, 179597, 180092, 181122, 181162, 181617, 181657, 181697, 182112, 182152, 182192, 182647,
    182687, 183721, 188474, 188514, 189009, 189286, 189504, 189781, 189999, 190494, 193346, 193386, 193945, 194143,
    194638, 194836, 195133, 195866, 196361, 196856, 196896, 197391, 197886, 198381, 198876, 199589, 200084, 207159,
    207199, 207694, 208189, 208684, 209179, 211298, 211338, 211378, 211833, 211873, 212328, 212368, 212823, 212863,
    212903, 213318, 213358, 213398, 213853, 213893, 217066, 217561, 217601, 218096, 218591, 223938, 223978, 224438,
    224537, 224735, 224933, 225032, 225131, 225230, 226161, 226557, 226656, 226696, 227052, 227151, 227191, 227686,
    228181, 228676, 229171, 231627, 231667, 232122, 232162, 232617, 232657, 232697, 233112, 233152, 233192, 233647,
    233687, 239474, 240286, 244346, 244386, 245836, 245876, 246371, 246866, 247361, 247401, 247856, 247896, 248391,
    248886, 249381, 249876, 250589, 255030, 255129, 255169, 255228, 255961, 256357, 256456, 256852, 256951, 256991,
    257486, 257981, 258377, 258476, 258872, 258971, 260694, 261189, 261229, 261724, 262219, 262714, 263209, 263249,
    263744, 264239, 265947, 268066, 268106, 268561, 268601, 269096, 269591, 274938, 274978, 275018, 275537, 276171,
    276666, 277062, 277161, 277557, 277656, 277696, 278191, 278686, 279181, 279676, 281597, 281637, 281677, 282132,
    282172, 282627, 282667, 283122, 283162, 283202, 283617, 283657, 283697, 284152, 284192, 284647, 284687, 285761,
    285860, 285900, 286256, 286355, 286395, 286652, 286751, 286791, 287147, 287246, 287286, 287781, 288276, 288474,
    288672, 288771, 288969, 289167, 289266, 289504, 289999, 291722, 291762, 292217, 292257, 292712, 292752, 292792,
    293207, 293247, 293287, 293742, 293782, 294237, 294277, 294732, 294772, 294812, 295227, 295267, 295307, 295762,
    295802, 296242, 296341, 296381, 296876, 297371, 297767, 297866, 298361, 298401, 298896, 299391, 299886, 300381,
    309199, 309694, 310189, 310684, 311813, 311853, 312308, 312348, 312388, 312803, 312843, 312883, 313338, 313378,
    313833, 313873, 314328, 314368, 314408, 314823, 314863, 314903, 315358, 315398, 315853, 315893, 316452, 316947,
    319066, 325938, 325978, 326018, 326537, 326636, 326676, 327171, 327666, 328062, 328161, 328201, 328557, 328656,
    328696, 329191, 329686, 330181, 330676, 332102, 332142, 332182, 332597, 332637, 332677, 333132, 333172, 333627,
    333667, 334122, 334162, 334202, 334617, 334657, 334697, 335152, 335192, 335647, 335687, 336761, 336860, 336900,
    337157, 337256, 337355, 337395, 337652, 337751, 337791, 338286, 338781, 339177, 339276, 339474, 339672, 339771,
    339969, 340009, 340504, 340999, 341692, 341732, 341772, 342227, 342267, 342722, 342762, 343217, 343257, 343297,
    343712, 343752, 343792, 344247, 344287, 344742, 344782, 345237, 345277, 345317, 345732, 345772, 345812, 346267,
    346307, 346762, 346802, 346846, 346886, 346945, 346985, 347044, 347084, 347242, 347341, 347381, 347440, 347480,
    347579, 347876, 347975, 348074, 348371, 348470, 348569, 348767, 348866, 348965, 349064, 349262, 349361, 349460,
    349599, 350094, 350589, 351084, 351619, 351817, 351857, 352114, 352312, 352352, 352807, 352847, 352887, 353302,
    353342, 353382, 353837, 353877, 354332, 354372, 354827, 354867, 354907, 355322, 355362, 355402, 355857, 355897,
    356352, 356392, 356847, 356887, 356927, 362813, 362853, 363308, 363348, 363388, 363803, 363843, 363883, 364338,
    364378, 364833, 364873, 365328, 365368, 365408, 365823, 365863, 365903, 366358, 366398, 366853, 366893, 367452,
    367947, 370066, 376938, 376978, 377018, 377676, 378171, 378567, 378666, 379062, 379161, 383102, 383142, 383182,
    383637, 383677, 384132, 384172, 384627, 384667, 384707, 385122, 385162, 385202, 385657, 385697, 386152, 386192,
    386647, 386687, 386727, 387761, 387860, 387900, 388157, 388256, 388296, 388355, 388395, 388652, 388751, 388791,
    389286, 389781, 390177, 390276, 390474, 390672, 390771, 391009, 391504, 391702, 391742, 391999, 392197, 392237,
    392277, 392692, 392732, 392772, 393227, 393267, 393722, 393762, 394217, 394257, 394297, 394712, 394752, 394792,
    395247, 395287, 395742, 395782, 396237, 396277, 396317, 396732, 396772, 396812, 397267, 397307, 397762, 397802,
    397846, 397886, 397945, 397985, 398044, 398084, 398381, 398480, 398579, 398876, 398975, 399074, 399272, 399371,
    399470, 399569, 399767, 399866, 399965, 400064, 400104, 400599, 401094, 401589, 401787, 401827, 401867, 402084,
    402124, 402322, 402362, 402619, 402817, 402857, 403114, 403312, 403352, 403392, 403807, 403847, 403887, 404342,
    404382, 404837, 404877, 405332, 405372, 405412, 405827, 405867, 405907, 406362, 406402, 406857, 406897, 407352,
    407392, 407847, 407887, 413813, 413853, 413893, 414308, 414348, 414388, 414843, 414883, 415338, 415378, 415833,
    415873, 415913, 416328, 416368, 416408, 416863, 416903, 417358, 417398, 417853, 417893, 418452, 427938, 427978,
    428018, 428676, 429171, 429567, 429666, 430062, 430161, 434102, 434142, 434182, 434637, 434677, 435132, 435172,
    435627, 435667, 435707, 436122, 436162, 436202, 436657, 436697, 437152, 437192, 437647, 437687, 438662, 438761,
    438860, 439157, 439256, 439355, 441474, 441514, 441712, 441752, 442009, 442207, 442247, 442504, 442702, 442742,
    442782, 442999, 443197, 443237, 443277, 443732, 443772, 444227, 444267, 444722, 444762, 444802, 445217, 445257,
    445297, 445752, 445792, 446247, 446287, 446742, 446782, 446822, 447237, 447277, 447317, 447772, 447812, 448267,
    448307, 448762, 448802, 448846, 448886, 448945, 448985, 449084, 449381, 449480, 449579, 449876, 449975, 450074,
    450272, 450371, 450470, 450569, 450767, 450866, 450965, 451104, 451599, 451797, 451837, 452094, 452292, 452332,
    452372, 452589, 452787, 452827, 452867, 453124, 453322, 453362, 453619, 453817, 453857, 454114, 454312, 454352,
    454392, 454807, 454847, 454887, 455342, 455382, 455837, 455877, 456332, 456372, 456412, 456827, 456867, 456907,
    457362, 457402, 457857, 457897, 458352, 458392, 458847, 458887, 459070, 459169, 459268, 459308, 459367, 459466,
    459565, 459664, 459763, 459803, 459843, 459862, 459961, 460060, 460159, 460199, 460694, 461189, 461684, 461882,
    461922, 461962, 462179, 462219, 462417, 462457, 462714, 462912, 462952, 463209, 463407, 463447, 463487, 463704,
    463902, 463942, 463982, 464199, 464239, 464437, 464477, 464734, 464932, 464972, 465229, 465427, 465467, 465507,
    465724, 465922, 465962, 466002, 466219, 466259, 466457, 466497, 466754, 466952, 466992, 467249, 467447, 467487,
    467744, 467942, 467982, 468239, 468279, 468477, 468972, 469452, 478978, 479676, 480072, 480171, 480567, 480666,
    485142, 485182, 485637, 485677, 486132, 486172, 486212, 486627, 486667, 486707, 487162, 487202, 487657, 487697,
    488152, 488192, 488647, 488687, 489662, 489761, 489860, 490157, 490256, 490355, 491682, 491722, 491762, 491979,
    492177, 492217, 492257, 492514, 492712, 492752, 493009, 493207, 493247, 493504, 493702, 493742, 493782, 493999,
    494197, 494237, 494277, 494732, 494772, 495227, 495267, 495722, 495762, 495802, 496217, 496257, 496297, 496752,
    496792, 497247, 497287, 497742, 497782, 498237, 498277, 498772, 499267, 499762, 500084, 500579, 501074, 501569,
    501609, 501807, 501847, 502104, 502302, 502342, 502599, 502797, 502837, 502877, 503094, 503292, 503332, 503372,
    503589, 503629, 503827, 503867, 504124, 504322, 504362, 504619, 504817, 504857, 504897, 505114, 505312, 505352,
    505392, 505847, 505887, 506342, 506382, 506837, 506877, 506917, 507332, 507372, 507412, 507867, 507907, 508362,
    508402, 508857, 508897, 509352, 509392, 509887, 510070, 510169, 510268, 510308, 510367, 510466, 510565, 510664,
    510763, 510803, 510843, 510862, 510961, 511060, 511199, 511694, 511892, 511932, 512189, 512387, 512427, 512467,
    512684, 512882, 512922, 512962, 513219, 513417, 513457, 513714, 513912, 513952, 514209, 514407, 514447, 514487,
    514704, 514902, 514942, 514982, 515239, 515437, 515477, 515734, 515932, 515972, 516229, 516427, 516467, 516507,
    516724, 516922, 516962, 517002, 517259, 517457, 517497, 517754, 517952, 517992, 518249, 518447, 518487, 518744,
    518942, 518982, 519279, 519477, 519972, 529978, 531904, 532399, 536142, 536182, 536637, 536677, 537132, 537172,
    537212, 537627, 537667, 537707, 538162, 538202, 538657, 538697, 539152, 539192, 539647, 539687, 540662, 540761,
    540860, 541692, 541732, 541989, 542187, 542227, 542267, 542484, 542682, 542722, 542762, 542979, 543019, 543217,
    543257, 543514, 543712, 543752, 544009, 544207, 544247, 544287, 544504, 544702, 544742, 544782, 544999, 545039,
    545237, 545277, 545732, 545772, 546227, 546267, 546307, 546722, 546762, 546802, 547257, 547297, 547752, 547792,
    548247, 548287, 548742, 548782, 549277, 549772, 550267, 550762, 551084, 551579, 551777, 551817, 551857, 552074,
    552272, 552312, 552352, 552609, 552807, 552847, 553104, 553302, 553342, 553599, 553797, 553837, 553877, 554094,
    554292, 554332, 554372, 554629, 554827, 554867, 555124, 555322, 555362, 555619, 555817, 555857, 555897, 556114,
    556312, 556352, 556392, 556847, 556887, 557342, 557382, 557837, 557877, 558332, 558372, 558867, 559362, 559857,
    560352, 561169, 561268, 561308, 561348, 561664, 561704, 561902, 561942, 562199, 562397, 562437, 562694, 562892,
    562932, 562972, 563189, 563387, 563427, 563467, 563684, 563724, 563922, 563962, 564219, 564417, 564457, 564714,
    564912, 564952, 564992, 565209, 565407, 565447, 565487, 565704, 565744, 565942, 565982, 566239, 566437, 566477,
    566734, 566932, 566972, 567012, 567229, 567427, 567467, 567507, 567724, 567764, 567962, 568002, 568259, 568457,
    568497, 568754, 568952, 568992, 569249, 569447, 569487, 569744, 569784, 569982, 570279, 570477, 570972, 571294,
    571393, 571433, 571492, 571532, 571690, 571730, 571789, 571987, 572027, 572185, 572225, 572265, 572284, 572482,
    572522, 572562, 572680, 572720, 572760, 572779, 572977, 573017, 573057, 573175, 573215, 573255, 573314, 573512,
    573552, 573809, 574007, 574047, 574304, 574502, 574542, 574582, 574799, 574997, 575037, 575077, 575334, 575532,
    575572, 575829, 576027, 576067, 576324, 576522, 576562, 576602, 576819, 576918, 576958, 576998, 577017, 577057,
    577097, 577354, 577453, 577493, 577552, 577592, 577849, 577948, 577988, 578047, 578087, 578344, 578443, 578483,
    578542, 578582, 578839, 578938, 578978, 579018, 579037, 579077, 579374, 579473, 579513, 579572, 579869, 579968,
    580008, 580067, 580364, 580463, 580503, 580562, 580859, 581057, 581874, 582369, 582409, 582904, 583399, 587142,
    587182, 587637, 587677, 588132, 588172, 588667, 589162, 589657, 590152, 591999, 592197, 592237, 592494, 592692,
    592732, 592989, 593187, 593227, 593267, 593484, 593682, 593722, 593762, 594019, 594217, 594257, 594514, 594712,
    594752, 595009, 595207, 595247, 595287, 595504, 595702, 595742, 595782, 596039, 596237, 596277, 596732, 596772,
    597227, 597267, 597307, 597722, 597762, 597802, 598257, 598297, 598752, 598792, 599247, 599287, 599742, 599782,
    600277, 600772, 601267, 601762, 602084, 602282, 602322, 602362, 602579, 602777, 602817, 602857, 603074, 603114,
    603312, 603352, 603609, 603807, 603847, 604104, 604302, 604342, 604382, 604599, 604797, 604837, 604877, 605094,
    605134, 605332, 605372, 605629, 605827, 605867, 606124, 606322, 606362, 606402, 606619, 606817, 606857, 606897,
    607114, 607154, 607352, 607392, 607847, 607887, 608342, 608382, 608837, 608877, 609372, 609867, 610362, 610857,
    617853, 617893, 618348, 618388, 618843, 618883, 619338, 619378, 619873, 620368, 620863, 621358, 622294, 622492,
    622532, 622690, 622730, 622789, 622987, 623027, 623067, 623185, 623225, 623265, 623284, 623482, 623522, 623562,
    623680, 623720, 623760, 623779, 623819, 624017, 624057, 624215, 624255, 624314, 624512, 624552, 624809, 625007,
    625047, 625087, 625304, 625502, 625542, 625582, 625799, 625839, 626037, 626077, 626334, 626532, 626572, 626829,
    627027, 627067, 627107, 627324, 627522, 627562, 627602, 627819, 627859, 627918, 627958, 627998, 628057, 628097,
    628354, 628453, 628493, 628552, 628592, 628849, 628948, 628988, 629047, 629087, 629344, 629443, 629483, 629523,
    629542, 629582, 629839, 629879, 629938, 629978, 630018, 630077, 630374, 630473, 630513, 630572, 630869, 630968,
    631008, 631067, 631364, 631463, 631503, 631543, 631562, 631859, 632874, 633409, 633904, 634399, 638142, 638182,
    638637, 638677, 639132, 639172, 639667, 640162, 640657, 641152, 642702, 642742, 642900, 642940, 642999, 643098,
    643138, 643197, 643237, 643395, 643435, 643494, 643593, 643633, 643692, 643732, 643772, 643890, 643930, 643970,
    643989, 644088, 644128, 644168, 644187, 644227, 644267, 644385, 644425, 644465, 644484, 644524, 644583, 644623,
    644663, 644722, 644762, 644920, 644960, 645019, 645118, 645158, 645217, 645257, 645415, 645455, 645514, 645613,
    645653, 645712, 645752, 645792, 645910, 645950, 645990, 646009, 646108, 646148, 646188, 646207, 646247, 646287,
    646405, 646445, 646485, 646504, 646544, 646603, 646643, 646683, 646742, 646782, 646940, 646980, 647039, 647138,
    647178, 647237, 647277, 647435, 647475, 647534, 647633, 647673, 647732, 647772, 647930, 647970, 648029, 648128,
    648168, 648208, 648227, 648267, 648524, 648564, 648623, 648663, 648703, 648762, 649059, 649158, 649198, 649257,
    649554, 649653, 649693, 649752, 650049, 650148, 650188, 650228, 650247, 650544, 650643, 650683, 650723, 651178,
    651218, 651673, 651713, 652168, 652208, 652248, 652564, 652604, 652644, 652663, 652703, 652743, 653084, 653282,
    653322, 653362, 653579, 653777, 653817, 653857, 654114, 654312, 654352, 654609, 654807, 654847, 655104, 655302,
    655342, 655382, 655599, 655797, 655837, 655877, 656134, 656332, 656372, 656629, 656827, 656867, 657124, 657322,
    657362, 657402, 657619, 657817, 657857, 657897, 658154, 658352, 658392, 658847, 658887, 659342, 659382, 659837,
    659877, 660372, 660867, 661362, 661857, 668853, 668893, 669348, 669388, 669843, 669883, 670338, 670378, 670873,
    671368, 671863, 672358, 673294, 673492, 673532, 673690, 673730, 673770, 673789, 673987, 674027, 674067, 674185,
    674225, 674265, 674284, 674482, 674522, 674562, 674680, 674720, 674760, 674819, 675017, 675057, 675215, 675255,
    675314, 675512, 675552, 675809, 676007, 676047, 676087, 676304, 676502, 676542, 676582, 676839, 677037, 677077,
    677334, 677532, 677572, 677829, 678027, 678067, 678324, 678522, 678562, 678859, 678958, 678998, 679057, 679354,
    679453, 679493, 679552, 679849, 679948, 679988, 680047, 680344, 680443, 680483, 680523, 680542, 680978, 681018,
    681473, 681513, 681968, 682008, 682463, 682503, 682543, 682899, 682939, 683394, 683434, 683874, 683914, 684409,
    684904, 685399, 689142, 689182, 689637, 689677, 690172, 690667, 691162, 691657, 693702, 693742, 693900, 693940,
    693999, 694098, 694138, 694197, 694237, 694395, 694435, 694475, 694494, 694593, 694633, 694673, 694692, 694732,
    694772, 694890, 694930, 694970, 694989, 695088, 695128, 695168, 695187, 695227, 695267, 695385, 695425, 695465,
    695524, 695623, 695663, 695722, 695762, 695920, 695960, 696019, 696118, 696158, 696217, 696257, 696415, 696455,
    696495, 696514, 696613, 696653, 696693, 696712, 696752, 696792, 696910, 696950, 696990, 697009, 697108, 697148,
    697188, 697207, 697247, 697287, 697405, 697445, 697485, 697544, 697643, 697683, 697742, 697782, 697940, 697980,
    698039, 698138, 698178, 698237, 698277, 698435, 698475, 698534, 698633, 698673, 698732, 698772, 698930, 698970,
    699029, 699128, 699168, 699208, 699227, 699267, 699564, 699663, 699703, 699762, 700059, 700158, 700198, 700257,
    700554, 700653, 700693, 700752, 701049, 701148, 701188, 701228, 701247, 701683, 701723, 702178, 702218, 702673,
    702713, 703069, 703109, 703149, 703168, 703208, 703248, 703604, 703644, 703703, 703743, 704084, 704282, 704322,
    704362, 704579, 704619, 704817, 704857, 705114, 705312, 705352, 705609, 705807, 705847, 705887, 706104, 706302,
    706342, 706382, 706599, 706639, 706837, 706877, 707134, 707332, 707372, 707629, 707827, 707867, 708124, 708322,
    708362, 708619, 708659, 708857, 709154, 709352, 709847, 710342, 719853, 720348, 720843, 724294, 724492, 724532,
    724572, 724690, 724730, 724770, 724789, 724987, 725027, 725067, 725185, 725225, 725265, 725284, 725324, 725522,
    725562, 725720, 725760, 725819, 726017, 726057, 726215, 726255, 726314, 726512, 726552, 726592, 726809, 727007,
    727047, 727087, 727304, 727344, 727542, 727582, 727839, 728037, 728077, 728334, 728532, 728572, 728829, 729027,
    729067, 729324, 729364, 729562, 729859, 729958, 729998, 730057, 730354, 730453, 730493, 730552, 730849, 730948,
    730988, 731028, 731047, 731344, 731443, 731483, 731523, 731978, 732018, 732473, 732513, 732869, 732909, 732949,
    732968, 733008, 733048, 733364, 733404, 733444, 733463, 733503, 733543, 733899, 733939, 734394, 734434, 734914,
    735409, 735904, 736399, 740142, 740637, 744702, 744742, 744900, 744940, 744999, 745098, 745138, 745197, 745237,
    745277, 745395, 745435, 745475, 745494, 745593, 745633, 745673, 745692, 745732, 745772, 745890, 745930, 745970,
    745989, 746029, 746088, 746128, 746168, 746227, 746267, 746425, 746465, 746524, 746623, 746663, 746722, 746762,
    746920, 746960, 747019, 747118, 747158, 747217, 747257, 747297, 747415, 747455, 747495, 747514, 747613, 747653,
    747693, 747712, 747752, 747792, 747910, 747950, 747990, 748009, 748049, 748108, 748148, 748188, 748247, 748287,
    748445, 748485, 748544, 748643, 748683, 748742, 748782, 748940, 748980, 749039, 749138, 749178, 749237, 749277,
    749435, 749475, 749534, 749633, 749673, 749713, 749732, 749772, 749930, 749970, 750029, 750069, 750128, 750168,
    750208, 750267, 750564, 750663, 750703, 750762, 751059, 751158, 751198, 751257, 751554, 751653, 751693, 751733,
    751752, 752049, 752148, 752188, 752228, 752683, 752723, 753079, 753119, 753178, 753218, 753574, 753614, 753654,
    753673, 753713, 753753, 754069, 754109, 754149, 754168, 754208, 754248, 754604, 754644, 754703, 754743, 755084,
    755282, 755322, 755362, 755619, 755817, 755857, 756114, 756312, 756352, 756609, 756807, 756847, 756887, 757104,
    757302, 757342, 757382, 757639, 757837, 757877, 758134, 758332, 758372, 758629, 758827, 758867, 759124, 759322,
    759362, 759659, 759857, 760154, 760352, 760847, 761342, 770853, 771348, 771843, 775294, 775492, 775532, 775572,
    775690, 775730, 775770, 775789, 775987, 776027, 776067, 776185, 776225, 776265, 776324, 776522, 776562, 776720,
    776760, 776819, 777017, 777057, 777215, 777255, 777295, 777314, 777512, 777552, 777592, 777809, 778007, 778047,
    778087, 778344, 778542, 778582, 778839, 779037, 779077, 779334, 779532, 779572, 779829, 780027, 780067, 780364,
    780562, 780859, 780958, 780998, 781057, 781354, 781453, 781493, 781552, 781849, 781948, 781988, 782028, 782047,
    782483, 782523, 782879, 782919, 782978, 783018, 783374, 783414, 783454, 783473, 783513, 783869, 783909, 783949,
    783968, 784008, 784048, 784404, 784444, 784503, 784543, 784899, 784939, 785394, 785434, 785474, 785914, 786409,
    786904, 787399, 787439, 791142, 795702, 795742, 795900, 795940, 795980, 795999, 796098, 796138, 796178, 796197,
    796237, 796277, 796395, 796435, 796475, 796494, 796593, 796633, 796673, 796692, 796732, 796772, 796890, 796930,
    796970, 797029, 797128, 797168, 797227, 797267, 797425, 797465, 797524, 797623, 797663, 797722, 797762, 797920,
    797960, 798019, 798118, 798158, 798217, 798257, 798415, 798455, 798514, 798613, 798653, 798693, 798712, 798752,
    798910, 798950, 799049, 799148, 799188, 799247, 799445, 799544, 799643, 799683, 799742, 799940, 800039, 800138,
    800178, 800237, 800435, 800534, 800633, 800673, 800713, 800732, 800930, 801168, 801208, 801663, 801703, 802158,
    802198, 802653, 802693, 802733, 803089, 803129, 803188, 803228, 803584, 803624, 803683, 803723, 804079, 804119,
    804159, 804178, 804218, 804574, 804614, 804654, 804673, 804713, 804753, 805109, 805149, 805208, 805248, 805604,
    805644, 805703, 805743, 806084, 806124, 806322, 806362, 806619, 806817, 806857, 807114, 807312, 807352, 807392,
    807609, 807807, 807847, 807887, 808104, 808144, 808342, 808382, 808639, 808837, 808877, 809134, 809332, 809372,
    809629, 809827, 809867, 810124, 810164, 810362, 810659, 810857, 811154, 811352, 811847, 821853, 822348, 826294,
    826492, 826532, 826572, 826690, 826730, 826770, 826789, 826829, 827027, 827067, 827225, 827265, 827324, 827522,
    827562, 827720, 827760, 827819, 828017, 828057, 828215, 828255, 828314, 828512, 828552, 828809, 828849, 829047,
    829344, 829542, 829839, 830037, 830334, 830532, 830829, 831958, 831998, 832453, 832493, 832533, 832849, 832889,
    832929, 832948, 832988, 833028, 833384, 833424, 833483, 833523, 833879, 833919, 833978, 834018, 834374, 834414,
    834454, 834473, 834513, 834553, 834869, 834909, 834949, 834968, 835008, 835048, 835404, 835444, 835503, 835543,
    835899, 835939, 836394, 836434, 836474, 836914, 837409, 837904, 838439, 842142, 846702, 846742, 846782, 846900,
    846940, 846980, 846999, 847098, 847138, 847178, 847197, 847237, 847277, 847395, 847435, 847475, 847494, 847534,
    847593, 847633, 847673, 847732, 847772, 847930, 847970, 848029, 848128, 848168, 848227, 848267, 848425, 848465,
    848524, 848623, 848663, 848722, 848762, 848920, 848960, 849019, 849118, 849158, 849198, 849217, 849257, 849415,
    849455, 849514, 849554, 849613, 849653, 849693, 849752, 849950, 850049, 850148, 850188, 850247, 850445, 850544,
    850643, 850683, 850742, 850940, 851039, 851138, 851178, 851218, 851237, 851435, 851534, 851633, 851673, 851713,
    852168, 852208, 852663, 852703, 853059, 853099, 853139, 853158, 853198, 853238, 853554, 853594, 853634, 853653,
    853693, 853733, 854089, 854129, 854188, 854228, 854584, 854624, 854683, 854723, 855079, 855119, 855159, 855178,
    855218, 855258, 855574, 855614, 855654, 855673, 855713, 855753, 856109, 856149, 856208, 856248, 856604, 856644,
    856703, 856743, 857124, 857322, 857362, 857619, 857817, 857857, 858114, 858312, 858352, 858609, 858807, 858847,
    859144, 859342, 859639, 859837, 860134, 860332, 860629, 860827, 867110, 867150, 867209, 867308, 867348, 867407,
    867447, 867487, 867506, 867546, 867586, 867605, 867645, 867685, 867704, 867803, 867843, 867883, 867902, 867942,
    867982, 868001, 868041, 868081, 868100, 868140, 868180, 868199, 868239, 868298, 868338, 868378, 868437, 868477,
    868536, 868576, 868635, 868675, 868734, 868833, 868873, 868932, 868972, 869031, 869071, 869130, 869170, 869229,
    869328, 869368, 869427, 869467, 869625, 869665, 869724, 869823, 869863, 869903, 869922, 869962, 870120, 870160,
    870219, 870259, 870318, 870358, 870398, 870457, 870655, 870754, 870853, 870893, 870952, 871150, 871249, 871348,
    871388, 871447, 871645, 871744, 871843, 871883, 871923, 871942, 872140, 872239, 872338, 872378, 872418, 872774,
    872814, 872873, 872913, 873269, 873309, 873368, 873408, 873764, 873804, 873844, 873863, 873903, 873943, 874259,
    874299, 874339, 874358, 874398, 874438, 874794, 874834, 874893, 874933, 875289, 875329, 875388, 875428, 875784,
    875824, 875864, 875883, 875923, 875963, 876279, 876319, 876359, 876378, 876418, 876458, 876814, 876854, 876913,
    876953, 877294, 877492, 877532, 877572, 877690, 877730, 877770, 877829, 878027, 878067, 878225, 878265, 878324,
    878522, 878562, 878720, 878760, 878819, 879017, 879057, 879215, 879255, 879314, 879512, 879552, 879849, 880047,
    880344, 880542, 880839, 881037, 881334, 881532, 882958, 882998, 883354, 883394, 883434, 883453, 883493, 883533,
    883889, 883929, 883988, 884028, 884384, 884424, 884483, 884523, 884879, 884919, 884959, 884978, 885018, 885374,
    885414, 885454, 885473, 885513, 885553, 885909, 885949, 886008, 886048, 886404, 886444, 886503, 886543, 886899,
    886939, 886979, 887394, 887434, 887474, 887914, 888409, 888904, 888944, 889439, 897702, 897742, 897782, 897900,
    897940, 897980, 897999, 898098, 898138, 898178, 898197, 898237, 898277, 898395, 898435, 898475, 898534, 898633,
    898673, 898732, 898772, 898930, 898970, 899029, 899128, 899168, 899227, 899267, 899425, 899465, 899524, 899623,
    899663, 899722, 899762, 899920, 899960, 900019, 900118, 900158, 900198, 900217, 900257, 900415, 900455, 900554,
    900653, 900693, 900752, 900950, 901049, 901148, 901188, 901247, 901445, 901544, 901643, 901683, 901742, 901940,
    902039, 902138, 902178, 902218, 902237, 902435, 902673, 902713, 903069, 903109, 903168, 903208, 903564, 903604,
    903644, 903663, 903703, 904059, 904099, 904139, 904158, 904198, 904238, 904594, 904634, 904693, 904733, 905089,
    905129, 905188, 905228, 905584, 905624, 905664, 905683, 905723, 906079, 906119, 906159, 906178, 906218, 906258,
    906614, 906654, 906713, 906753, 907109, 907149, 907208, 907248, 907604, 907644, 907684, 907703, 907743, 908124,
    908322, 908362, 908619, 908817, 908857, 909114, 909312, 909352, 909609, 909649, 909847, 910144, 910342, 910639,
    910837, 911134, 911332, 911629, 918110, 918150, 918209, 918308, 918348, 918407, 918447, 918506, 918546, 918586,
    918605, 918645, 918704, 918803, 918843, 918883, 918902, 918942, 919001, 919041, 919081, 919100, 919140, 919239,
    919338, 919378, 919437, 919536, 919576, 919635, 919734, 919833, 919873, 919932, 920031, 920071, 920130, 920229,
    920328, 920368, 920427, 920625, 920724, 920823, 920863, 920903, 920922, 921120, 921358, 921398, 921853, 921893,
    922348, 922388, 922843, 922883, 922923, 923279, 923319, 923378, 923418, 923774, 923814, 923873, 923913, 924269,
    924309, 924349, 924368, 924408, 924764, 924804, 924844, 924863, 924903, 924943, 925299, 925339, 925398, 925438,
    925794, 925834, 925893, 925933, 926289, 926329, 926369, 926388, 926428, 926784, 926824, 926864, 926883, 926923,
    926963, 927319, 927359, 927418, 927458, 927814, 927854, 927913, 927953, 928294, 928334, 928532, 928572, 928730,
    928770, 928829, 929027, 929067, 929225, 929265, 929324, 929522, 929562, 929720, 929760, 929819, 930017, 930057,
    930215, 930255, 930314, 930354, 930552, 930849, 931047, 931344, 931542, 931839, 932037, 932334, 933364, 933404,
    933463, 933503, 933859, 933899, 933939, 933958, 933998, 934038, 934354, 934394, 934434, 934453, 934493, 934533,
    934889, 934929, 934988, 935028, 935384, 935424, 935483, 935523, 935879, 935919, 935959, 935978, 936018, 936058,
    936374, 936414, 936454, 936473, 936513, 936553, 936909, 936949, 937008, 937048, 937404, 937444, 937503, 937543,
    937899, 937939, 937979, 938394, 938434, 938474, 938914, 939409, 939944, 940439, 948702, 948742, 948900, 948940,
    948999, 949039, 949098, 949138, 949178, 949237, 949435, 949534, 949633, 949673, 949732, 949930, 950029, 950128,
    950168, 950227, 950425, 950524, 950623, 950663, 950703, 950722, 950920, 951019, 951118, 951158, 951198, 951653,
    951693, 952148, 952188, 952643, 952683, 952723, 953039, 953079, 953119, 953138, 953178, 953218, 953574, 953614,
    953673, 953713, 954069, 954109, 954168, 954208, 954564, 954604, 954644, 954663, 954703, 954743, 955059, 955099,
    955139, 955158, 955198, 955238, 955594, 955634, 955693, 955733, 956089, 956129, 956188, 956228, 956584, 956624,
    956664, 956683, 956723, 956763, 957079, 957119, 957159, 957178, 957218, 957258, 957614, 957654, 957713, 957753,
    958109, 958149, 958208, 958248, 958604, 958644, 958684, 958703, 958743, 958783, 959124, 959322, 959362, 959619,
    959817, 959857, 960114, 960312, 960352, 960649, 960847, 961144, 961342, 961639, 961837, 962134, 962332, 963263,
    963303, 969110, 969150, 969209, 969308, 969348, 969388, 969407, 969447, 969506, 969546, 969586, 969605, 969645,
    969704, 969744, 969803, 969843, 969883, 969942, 970041, 970081, 970140, 970239, 970338, 970378, 970437, 970536,
    970576, 970635, 970734, 970833, 970873, 970932, 971031, 971071, 971111, 971130, 971229, 971328, 971368, 971408,
    971427, 971625, 971724, 971823, 971863, 971903, 972358, 972398, 972853, 972893, 973249, 973289, 973329, 973348,
    973388, 973428, 973744, 973784, 973824, 973843, 973883, 973923, 974279, 974319, 974378, 974418, 974774, 974814,
    974873, 974913, 975269, 975309, 975349, 975368, 975408, 975448, 975764, 975804, 975844, 975863, 975903, 975943,
    976299, 976339, 976398, 976438, 976794, 976834, 976893, 976933, 977289, 977329, 977369, 977388, 977428, 977468,
    977784, 977824, 977864, 977883, 977923, 977963, 978319, 978359, 978418, 978458, 978814, 978854, 978913, 978953,
    979334, 979532, 979730, 979829, 980027, 980225, 980324, 980522, 980720, 980819, 981017, 981215, 983374, 983414,
    983473, 983513, 983869, 983909, 983968, 984008, 984364, 984404, 984444, 984463, 984503, 984859, 984899, 984939,
    984958, 984998, 985038, 985394, 985434, 985493, 985533, 985889, 985929, 985988, 986028, 986384, 986424, 986464,
    986483, 986523, 986879, 986919, 986959, 986978, 987018, 987058, 987414, 987454, 987513, 987553, 987909, 987949,
    988008, 988048, 988404, 988444, 988484, 988503, 988543, 988899, 988939, 988979, 989434, 989474, 989914, 990409,
    990449, 990944, 991439, 999702, 999742, 999900, 999940, 1000039, 1000138, 1000178, 1000237, 1000435, 1000534, 1000633,
    1000673, 1000732, 1000930, 1001029, 1001128, 1001168, 1001227, 1001425, 1001524, 1001623, 1001663, 1001703, 1001722, 1001920,
    1002158, 1002198, 1002653, 1002693, 1003148, 1003188, 1003544, 1003584, 1003624, 1003643, 1003683, 1003723, 1004079, 1004119,
    1004178, 1004218, 1004574, 1004614, 1004673, 1004713, 1005069, 1005109, 1005149, 1005168, 1005208, 1005564, 1005604, 1005644,
    1005663, 1005703, 1005743, 1006099, 1006139, 1006198, 1006238, 1006594, 1006634, 1006693, 1006733, 1007089, 1007129, 1007169,
    1007188, 1007228, 1007584, 1007624, 1007664, 1007683, 1007723, 1007763, 1008119, 1008159, 1008218, 1008258, 1008614, 1008654,
    1008713, 1008753, 1009109, 1009149, 1009189, 1009208, 1009248, 1009604, 1009644, 1009684, 1009703, 1009743, 1009783, 1010124,
    1010322, 1010619, 1010817, 1011114, 1013233, 1013273, 1013313, 1013768, 1013808, 1014263, 1014303, 1020110, 1020150, 1020209,
    1020308, 1020348, 1020388, 1020407, 1020447, 1020506, 1020546, 1020586, 1020605, 1020645, 1020744, 1020843, 1020883, 1020942,
    1021041, 1021081, 1021140, 1021239, 1021338, 1021378, 1021437, 1021536, 1021576, 1021635, 1021734, 1021833, 1021873, 1021932,
    1022031, 1022071, 1022111, 1022130, 1022229, 1022328, 1022368, 1022408, 1022427, 1022625, 1022863, 1022903, 1023259, 1023299,
    1023358, 1023398, 1023754, 1023794, 1023834, 1023853, 1023893, 1024249, 1024289, 1024329, 1024348, 1024388, 1024428, 1024784,
    1024824, 1024883, 1024923, 1025279, 1025319, 1025378, 1025418, 1025774, 1025814, 1025854, 1025873, 1025913, 1026269, 1026309,
    1026349, 1026368, 1026408, 1026448, 1026804, 1026844, 1026903, 1026943, 1027299, 1027339, 1027398, 1027438, 1027794, 1027834,
    1027874, 1027893, 1027933, 1028289, 1028329, 1028369, 1028388, 1028428, 1028468, 1028824, 1028864, 1028923, 1028963, 1029319,
    1029359, 1029418, 1029458, 1029814, 1029854, 1029894, 1029913, 1029953}

\* Mutant: an absent project_experience is scored as 0 with the three weights.
calculate_final_score_mut_always3(skill_fit, availability, project_experience) ==
    LET pe == IF project_experience = None THEN 0 ELSE project_experience.v
    IN  RoundFloat(55 * skill_fit + 30 * availability + 15 * pe, 100,
                   ((skill_fit * 101 + availability) * 101 + pe) \in FinalOffTies3)

\* Mutant: the project experience is added onto the two-weight sum.
calculate_final_score_mut_added(skill_fit, availability, project_experience) ==
    IF project_experience # None
    THEN RoundHalfEven(65 * skill_fit + 35 * availability + 15 * project_experience.v, 100)
    ELSE RoundFloat(65 * skill_fit + 35 * availability, 100,
                    (skill_fit * 101 + availability) \in FinalOffTies2)

calculate_final_score(skill_fit, availability, project_experience) ==
    IF project_experience # None
    THEN RoundFloat(55 * skill_fit + 30 * availability + 15 * project_experience.v, 100,
                    ((skill_fit * 101 + availability) * 101 + project_experience.v)
                        \in FinalOffTies3)
    ELSE RoundFloat(65 * skill_fit + 35 * availability, 100,
                    (skill_fit * 101 + availability) \in FinalOffTies2)

(***************************************************************************)
(* Calls of the pure scoring functions: the arguments are drawn from       *)
(* bounded sets in the initial state and the call is one step.             *)
(***************************************************************************)
MaxWorkDays == 24       \* largest work_days tried (20 working days and beyond)
MinWorkDays == 2        \* work_days down to -MinWorkDays
MaxLoadIn == 11         \* largest perceived_load tried (the clamp is at 10)
NumSkills == 2          \* skill ids 1..NumSkills
ExperienceStep == 10    \* project_experience is tried in steps of this size

WorkDaysIn == {None} \cup {PyInt(n) : n \in (0 - MinWorkDays)..MaxWorkDays}
PerceivedIn == {None} \cup {PyInt(n) : n \in (0 - 1)..MaxLoadIn}

SkillIds == 1..NumSkills

\* {skill_id: level} with levels 1..5, as get_consultant_skills_dict builds it.
SkillDicts == UNION {[S -> 1..MaxLevel] : S \in SUBSET SkillIds}

\* [(skill_id, required_level), ...] without a repeated skill_id.
RequiredLists ==
    {r \in UNION {[1..n -> SkillIds \X (0..MaxLevel)] : n \in 0..NumSkills} :
        \A i, j \in 1..Len(r) : i # j => r[i][1] # r[j][1]}

Percents == 0..100
ExperienceIn == {None} \cup {PyInt(n) : n \in {p \in Percents : p % ExperienceStep = 0}}

\* The functions a specification does not call.
WorkloadUnused == wl_in = <<>> /\ wl_out = <<>>
SkillFitUnused == sf_in = Unused /\ sf_out = NotReturned
FinalScoreUnused == fs_in = Unused /\ fs_out = NotReturned

InitWorkload ==
    /\ wl_in \in [1..2 -> WorkDaysIn \X PerceivedIn]
    /\ wl_out = <<>>
    /\ SkillFitUnused /\ FinalScoreUnused /\ SimilarityUnused
    /\ ClockUnused /\ MatchUnused /\ CallUnused /\ StoreUnused

InitSkillFit ==
    /\ sf_in \in [used : {TRUE}, consultant_skills_dict : SkillDicts,
                  required_skills : RequiredLists]
    /\ sf_out = NotReturned
    /\ WorkloadUnused /\ FinalScoreUnused /\ SimilarityUnused
    /\ ClockUnused /\ MatchUnused /\ CallUnused /\ StoreUnused

InitFinalScore ==
    /\ fs_in \in [used : {TRUE}, skill_fit : Percents, availability : Percents,
                  project_experience : ExperienceIn]
    /\ fs_out = NotReturned
    /\ WorkloadUnused /\ SkillFitUnused /\ SimilarityUnused
    /\ ClockUnused /\ MatchUnused /\ CallUnused /\ StoreUnused

\* The next call of calculate_workload_score returns.
WorkloadCall ==
    /\ Len(wl_out) < Len(wl_in)
    /\ LET args == wl_in[Len(wl_out) + 1]
       IN  wl_out' = Append(wl_out, calculate_workload_score(args[1], args[2]))
    /\ UNCHANGED <<wl_in, sfVars, fsVars, simVars, matchVars,
                   callVars, storeVars>>

SkillFitCall ==
    /\ sf_in.used /\ ~sf_out.returned
    /\ sf_out' = Returned(calculate_skill_fit(sf_in.consultant_skills_dict,
                                              sf_in.required_skills))
    /\ UNCHANGED <<wlVars, sf_in, fsVars, simVars, matchVars,
                   callVars, storeVars>>

FinalScoreCall ==
    /\ fs_in.used /\ ~fs_out.returned
    /\ fs_out' = Returned(calculate_final_score(fs_in.skill_fit, fs_in.availability,
                                                fs_in.project_experience))
    /\ UNCHANGED <<wlVars, sfVars, fs_in, simVars, matchVars,
                   callVars, storeVars>>

SpecWorkload == InitWorkload /\ [][WorkloadCall]_vars
SpecSkillFit == InitSkillFit /\ [][SkillFitCall]_vars
SpecFinalScore == InitFinalScore /\ [][FinalScoreCall]_vars

(***************************************************************************)
(* Claims about calculate_workload_score (SpecWorkload).                   *)
(***************************************************************************)
IsInt(x) == x.k = "int"

\* C1: for every accepted pair (work_days, perceived_load), negative, absent
\* and large work_days included, the returned workload_percent and
\* availability_percent sum to exactly 100.
C1_PercentsSumTo100 ==
    \A i \in 1..Len(wl_out) :
        wl_out[i].workload_percent + wl_out[i].availability_percent = 100

\* A negative and a saturating work_days have both been scored.
C1_Witness ==
    /\ Len(wl_out) = 2
    /\ IsInt(wl_in[1][1]) /\ wl_in[1][1].v < 0
    /\ wl_in[1][2] = None
    /\ IsInt(wl_in[2][1]) /\ wl_in[2][1].v > 23
    /\ wl_out[2].workload_percent = 100

\* C2: workload_percent is non-decreasing (availability_percent non-increasing)
\* in integer work_days and perceived_load, and (0, 0) gives 0 and 100.
C2_Monotone ==
    /\ (/\ Len(wl_out) = 2
        /\ \A i, j \in 1..2 : IsInt(wl_in[i][j])
        /\ wl_in[1][1].v <= wl_in[2][1].v
        /\ wl_in[1][2].v <= wl_in[2][2].v)
       => /\ wl_out[1].workload_percent <= wl_out[2].workload_percent
          /\ wl_out[1].availability_percent >= wl_out[2].availability_percent
    /\ \A i \in 1..Len(wl_out) :
           wl_in[i] = <<PyInt(0), PyInt(0)>>
               => /\ wl_out[i].workload_percent = 0
                  /\ wl_out[i].availability_percent = 100

\* Two calls, the second larger in both arguments and beyond the clamp of
\* perceived_load, with a strictly larger workload_percent.
C2_Witness ==
    /\ Len(wl_out) = 2
    /\ \A i, j \in 1..2 : IsInt(wl_in[i][j])
    /\ wl_in[1][1].v < wl_in[2][1].v
    /\ wl_in[1][2].v = 10 /\ wl_in[2][2].v = 11
    /\ wl_out[1].workload_percent < wl_out[2].workload_percent

\* C3: work_days = 20 with perceived_load = 10 gives workload_score 23.0,
\* workload_percent 100 and availability_percent 0; for every larger work_days
\* the percentages stay 100 and 0; both percentages are always in 0..100.
C3_Saturates ==
    \A i \in 1..Len(wl_out) :
        /\ wl_out[i].workload_percent \in 0..100
        /\ wl_out[i].availability_percent \in 0..100
        /\ wl_in[i] = <<PyInt(20), PyInt(10)>> => wl_out[i].workload_score = 230
        /\ (/\ IsInt(wl_in[i][1]) /\ wl_in[i][1].v >= 20
            /\ wl_in[i][2] = PyInt(10))
           => /\ wl_out[i].workload_percent = 100
              /\ wl_out[i].availability_percent = 0

\* (20, 10) and a larger work_days with the same perceived_load are both scored.
C3_Witness ==
    /\ Len(wl_out) = 2
    /\ wl_in[1] = <<PyInt(20), PyInt(10)>>
    /\ wl_out[1].workload_score = 230 /\ wl_out[1].workload_percent = 100
    /\ IsInt(wl_in[2][1]) /\ wl_in[2][1].v > 23 /\ wl_in[2][2] = PyInt(10)
    /\ wl_out[2].availability_percent = 0

(***************************************************************************)
(* Claims about calculate_skill_fit (SpecSkillFit).                        *)
(***************************************************************************)
\* Every required skill is held at the required level or above.
AllRequiredMet(d, req) ==
    \A i \in 1..Len(req) : req[i][1] \in DOMAIN d /\ d[req[i][1]] >= req[i][2]

\* C4: calculate_skill_fit returns 100 whenever every required skill is held
\* at a level greater than or equal to its required level, the empty
\* required-skill set included.
C4_AllMetGives100 ==
    (sf_out.returned /\ AllRequiredMet(sf_in.consultant_skills_dict, sf_in.required_skills))
        => sf_out.value = 100

\* Every skill is required, each is met, and one is held above its level.
C4_Witness ==
    /\ sf_out.returned
    /\ Len(sf_in.required_skills) = NumSkills
    /\ AllRequiredMet(sf_in.consultant_skills_dict, sf_in.required_skills)
    /\ \E i \in 1..Len(sf_in.required_skills) :
           sf_in.consultant_skills_dict[sf_in.required_skills[i][1]]
               > sf_in.required_skills[i][2]
    /\ sf_out.value = 100

\* The ratio min(1, consultant_level / required_level) in sixtieths, an absent
\* skill being level 0; for required level 0 it is 1 for any held level.
ClaimRatio60(d, r) ==
    LET level == IF r[1] \in DOMAIN d THEN d[r[1]] ELSE 0
    IN  IF r[2] = 0 THEN (IF level > 0 THEN 60 ELSE 0)
        ELSE IF level >= r[2] THEN 60
        ELSE (60 * level) \div r[2]

RECURSIVE ClaimRatioSum60(_, _)
ClaimRatioSum60(d, req) ==
    IF req = <<>> THEN 0 ELSE ClaimRatio60(d, Head(req)) + ClaimRatioSum60(d, Tail(req))

\* C5: for a non-empty required-skill set the result is 100 times the mean of
\* the capped ratios, rounded to a nearest integer (an absent skill counts as
\* ratio 0); as each ratio is capped at 1 a surplus never makes up for a
\* shortfall: the result is below 100 once the mean is below 99.5.
C5_RoundedMeanOfCappedRatios ==
    (sf_out.returned /\ sf_in.required_skills # <<>>)
        => LET n   == Len(sf_in.required_skills)
               sum == ClaimRatioSum60(sf_in.consultant_skills_dict, sf_in.required_skills)
               gap == 60 * n * sf_out.value - 100 * sum
           IN  /\ 2 * gap <= 60 * n /\ 2 * gap >= 0 - 60 * n
               /\ (200 * (60 * n - sum) > 60 * n) => sf_out.value < 100

\* One skill held above its required level, the other one not held at all.
C5_Witness ==
    /\ sf_out.returned
    /\ Len(sf_in.required_skills) = 2
    /\ \E i, j \in 1..2 :
           /\ sf_in.required_skills[i][1] \in DOMAIN sf_in.consultant_skills_dict
           /\ sf_in.consultant_skills_dict[sf_in.required_skills[i][1]]
                  > sf_in.required_skills[i][2]
           /\ sf_in.required_skills[i][2] > 0
           /\ sf_in.required_skills[j][1] \notin DOMAIN sf_in.consultant_skills_dict
           /\ sf_in.required_skills[j][2] > 0
    /\ sf_out.value = 50

(***************************************************************************)
(* Claims about calculate_final_score (SpecFinalScore).                    *)
(***************************************************************************)
\* C6: the final score is 0.55*skill_fit + 0.30*availability +
\* 0.15*project_experience rounded to a nearest integer when
\* project_experience is present, and 0.65*skill_fit + 0.35*availability
\* rounded when it is absent; (80, 60, 40) gives 68 and (80, 60, absent) 73.
C6_FinalScoreFormula ==
    fs_out.returned
        => LET exact100 ==
                   IF fs_in.project_experience = None
                   THEN 65 * fs_in.skill_fit + 35 * fs_in.availability
                   ELSE 55 * fs_in.skill_fit + 30 * fs_in.availability
                            + 15 * fs_in.project_experience.v
               gap == 100 * fs_out.value - exact100
           IN  /\ gap <= 50 /\ gap >= 0 - 50
               /\ (fs_in.skill_fit = 80 /\ fs_in.availability = 60
                      /\ fs_in.project_experience = PyInt(40)) => fs_out.value = 68
               /\ (fs_in.skill_fit = 80 /\ fs_in.availability = 60
                      /\ fs_in.project_experience = None) => fs_out.value = 73

C6_Witness ==
    /\ fs_out.returned
    /\ fs_in.skill_fit = 80 /\ fs_in.availability = 60
    /\ fs_in.project_experience = PyInt(40)
    /\ fs_out.value = 68

(***************************************************************************)
(* Strings: a str is a sequence of one-character strings.                  *)
(***************************************************************************)
PyStr(s) == [k |-> "str", v |-> s]

\* "x or ''" for a str-or-None value.
StrOrEmpty(x) == IF x.k = "str" THEN x.v ELSE <<>>

Whitespace == {" ", "\t", "\n"}
UpperCase == <<"A", "B", "C", "D", "E", "F", "G", "H", "I", "J", "K", "L", "M",
               "N", "O", "P", "Q", "R", "S", "T", "U", "V", "W", "X", "Y", "Z">>
LowerCase == <<"a", "b", "c", "d", "e", "f", "g", "h", "i", "j", "k", "l", "m",
               "n", "o", "p", "q", "r", "s", "t", "u", "v", "w", "x", "y", "z">>

Digits == <<"0", "1", "2", "3", "4", "5", "6", "7", "8", "9">>

\* str.lower()
Lower(s) ==
    [i \in 1..Len(s) |->
        IF \E j \in 1..Len(UpperCase) : UpperCase[j] = s[i]
        THEN LowerCase[CHOOSE j \in 1..Len(UpperCase) : UpperCase[j] = s[i]]
        ELSE s[i]]

\* str.strip()
RECURSIVE LStrip(_)
LStrip(s) == IF s # <<>> /\ Head(s) \in Whitespace THEN LStrip(Tail(s)) ELSE s
RECURSIVE RStrip(_)
RStrip(s) ==
    IF s # <<>> /\ s[Len(s)] \in Whitespace THEN RStrip(SubSeq(s, 1, Len(s) - 1)) ELSE s
Strip(s) == RStrip(LStrip(s))

\* str.split(sep): the pieces between the separators, empty ones included.
RECURSIVE Split(_, _)
Split(s, sep) ==
    IF \E i \in 1..Len(s) : s[i] = sep
    THEN LET i == CHOOSE i \in 1..Len(s) : s[i] = sep /\ \A j \in 1..(i - 1) : s[j] # sep
         IN  <<SubSeq(s, 1, i - 1)>> \o Split(SubSeq(s, i + 1, Len(s)), sep)
    ELSE <<s>>

\* Mutant: the tags are not lower-cased.
normalize_tags_mut_case(tags_string) ==
    IF tags_string.k = "None" \/ tags_string.v = <<>>
    THEN {}
    ELSE LET parts == Split(tags_string.v, ",")
         IN  {Strip(parts[i]) : i \in {j \in 1..Len(parts) : Strip(parts[j]) # <<>>}}

normalize_tags(tags_string) ==
    IF tags_string.k = "None" \/ tags_string.v = <<>>
    THEN {}
    ELSE LET parts == Split(tags_string.v, ",")
         IN  {Lower(Strip(parts[i])) : i \in {j \in 1..Len(parts) : Strip(parts[j]) # <<>>}}

(***************************************************************************)
(* calculate_recency_factor, calculate_intensity_factor (in hundredths)    *)
(***************************************************************************)
\* datetime.now() as [year, month], and the month after it.
NextMonth(now) ==
    IF now.month = 12 THEN [year |-> now.year + 1, month |-> 1]
    ELSE [year |-> now.year, month |-> now.month + 1]

\* (now.year - end_date.year) * 12 + (now.month - end_date.month)
MonthsSince(now, end_year, end_month) ==
    (now.year - end_year.v) * 12 + (now.month - end_month.v)

\* datetime(end_year, end_month, 1) raises ValueError outside these ranges.
DatetimeRaises(end_year, end_month) ==
    /\ Truthy(end_year) /\ Truthy(end_month)
    /\ (end_year.v \notin 1..9999 \/ end_month.v \notin 1..12)

\* Mutant: an end date exactly 6 months back falls in the second bucket.
calculate_recency_factor_mut_strict(end_year, end_month, now) ==
    IF ~Truthy(end_year) \/ ~Truthy(end_month) THEN 75
    ELSE LET months_since == MonthsSince(now, end_year, end_month)
         IN  IF months_since < 6 THEN 100
             ELSE IF months_since <= 18 THEN 85
             ELSE IF months_since <= 36 THEN 70
             ELSE 60

calculate_recency_factor(end_year, end_month, now) ==
    IF ~Truthy(end_year) \/ ~Truthy(end_month) THEN 75
    ELSE LET months_since == MonthsSince(now, end_year, end_month)
         IN  IF months_since <= 6 THEN 100
             ELSE IF months_since <= 18 THEN 85
             ELSE IF months_since <= 36 THEN 70
             ELSE 60

\* Mutant: intensity 5 is weighted like intensity 4.
calculate_intensity_factor_mut_five(intensity_level) ==
    IF intensity_level.k = "None" THEN 85
    ELSE CASE intensity_level.v = 1 -> 70
           [] intensity_level.v = 2 -> 80
           [] intensity_level.v = 3 -> 88
           [] intensity_level.v \in {4, 5} -> 95
           [] OTHER -> 85

calculate_intensity_factor(intensity_level) ==
    IF intensity_level.k = "None" THEN 85
    ELSE CASE intensity_level.v = 1 -> 70
           [] intensity_level.v = 2 -> 80
           [] intensity_level.v = 3 -> 88
           [] intensity_level.v = 4 -> 95
           [] intensity_level.v = 5 -> 100
           [] OTHER -> 85

\* The recency bucket description of the best match.  ("Piu" stands for the
\* source's "Più".)
recency_desc_of(end_year, end_month, now) ==
    IF ~Truthy(end_year) \/ ~Truthy(end_month) THEN "Date non specificate"
    ELSE LET months == MonthsSince(now, end_year, end_month)
         IN  IF months <= 6 THEN "Ultimo semestre"
             ELSE IF months <= 18 THEN "Ultimo anno e mezzo"
             ELSE IF months <= 36 THEN "Ultimi 3 anni"
             ELSE "Piu di 3 anni fa"

(***************************************************************************)
(* calculate_project_similarity                                            *)
(*                                                                         *)
(* A similarity is kept as 2 * e + r: e is the exact value of              *)
(* base * recency * intensity_factor in units of 1 / (1000000 * n), n the  *)
(* number of reference tags (1 when there are none), and r = 1 when the    *)
(* double product is the larger of the two doubles that equal products     *)
(* yield (0.65*0.75*0.80 = 0.39000000000000007 > 0.39 = 0.65*0.60*1.00).   *)
(* The two tables cover references of up to three tags, and the reference  *)
(* of ManyTags tags, which has no client and shares no tag, one or all.     *)
(***************************************************************************)
\* <<n, common tags, client_match, recency, intensity_factor>> whose double
\* product is the larger double of its exact value.
SimilarityAboveExact == {
    <<1, 1, 0, 75, 80>>, <<1, 1, 1, 75, 80>>, <<2, 1, 0, 75, 80>>, <<2, 1, 1, 75, 80>>,
    <<2, 1, 1, 85, 70>>, <<2, 2, 0, 75, 80>>, <<2, 2, 1, 75, 80>>, <<3, 1, 0, 70, 85>>,
    <<3, 1, 1, 75, 80>>, <<3, 2, 0, 70, 85>>, <<3, 2, 1, 75, 80>>, <<3, 3, 0, 75, 80>>,
    <<3, 3, 1, 75, 80>>, <<3, 3, 1, 100, 85>>, <<3, 3, 1, 85, 70>>, <<3, 3, 1, 85, 80>>,
    <<3, 3, 1, 85, 88>>, <<3, 3, 1, 85, 95>>, <<3, 3, 1, 85, 100>>, <<3, 3, 1, 70, 85>>,
    <<3, 3, 1, 60, 85>>, <<80, 1, 0, 75, 80>>, <<80, 80, 0, 75, 80>>}

\* <<n, similarity>> with similarity * 100 an exact x.5 whose double lies
\* below it (0.35 * 1.0 * 0.70 * 100 = 31.499999999999993 rounds to 31).
SimilarityOffTies == {
    <<1, 630000>>, <<1, 910000>>, <<2, 1260000>>, <<2, 1820000>>,
    <<2, 3100000>>, <<3, 1890000>>, <<3, 2730000>>, <<3, 3570000>>,
    <<80, 72800000>>}

NoMatchInfo == None

\* client_ref, tags_ref of the reference project.
ClientOf(project) == Lower(Strip(StrOrEmpty(project.client)))
RefTagCount(reference_project) ==
    Max(1, Cardinality(normalize_tags(reference_project.domain_tags)))

\* The locals of one pass of the loop body for experience cp, up to similarity.
SimilarityOf(cp, reference_project, now) ==
    LET client_ref  == ClientOf(reference_project)
        tags_ref    == normalize_tags(reference_project.domain_tags)
        client_past == ClientOf(cp.project)
        tags_past   == normalize_tags(cp.project.domain_tags)
        client_match == IF client_past # <<>> /\ client_ref # <<>> /\ client_past = client_ref
                        THEN 1 ELSE 0
        common_tags == Cardinality(tags_ref \cap tags_past)
        n           == Max(1, Cardinality(tags_ref))
        recency     == calculate_recency_factor(cp.end_year, cp.end_month, now)
        intensity_factor == calculate_intensity_factor(cp.intensity_level)
        \* base * 100 * n
        base        == 45 * common_tags + 35 * client_match * n
                           + Min(20 * n, 20 * common_tags + 10 * client_match * n)
        exact       == Max(0, Min(1000000 * n, base * recency * intensity_factor))
        above       == IF <<n, common_tags, client_match, recency, intensity_factor>>
                              \in SimilarityAboveExact THEN 1 ELSE 0
    IN  [client_match |-> client_match,
         common_tags  |-> common_tags,
         total_ref_tags |-> Cardinality(tags_ref),
         similarity   |-> 2 * exact + above]

\* Mutant: a later experience with an equal similarity replaces the best match.
IsNewBest_mut_ge(similarity, best_similarity) == similarity >= best_similarity

\* if similarity > best_similarity
IsNewBest(similarity, best_similarity) == similarity > best_similarity

\* One pass of the loop body: now1 is the clock read by
\* calculate_recency_factor, now2 the clock read for the description.
LoopBody(best, cp, reference_project, now1, now2) ==
    LET s == SimilarityOf(cp, reference_project, now1)
    IN  IF IsNewBest(s.similarity, best.best_similarity)
        THEN [best_similarity |-> s.similarity,
              best_match_info |->
                  [k |-> "info",
                   project_name   |-> cp.project.name,
                   project_id     |-> cp.project.id,
                   client_match   |-> s.client_match = 1,
                   common_tags    |-> s.common_tags,
                   total_ref_tags |-> s.total_ref_tags,
                   recency_desc   |-> recency_desc_of(cp.end_year, cp.end_month, now2),
                   intensity      |-> cp.intensity_level,
                   role           |-> cp.role]]
        ELSE best

\* if not reference_project or not consultant_projects
GuardReturns(consultant_projects, reference_project) ==
    reference_project.k = "None" \/ consultant_projects = <<>>

\* Mutant: the guard returns no score at all.
GuardResult_mut_none == <<None, None>>

\* return 0, None
GuardResult == <<PyInt(0), NoMatchInfo>>

BestAtStart == [best_similarity |-> 0, best_match_info |-> NoMatchInfo]

\* Mutant: a score that rounds to 0 is returned without metadata.
LoopResult_mut_zero_bare(best, reference_project) ==
    LET n == RefTagCount(reference_project)
        score == RoundFloat(best.best_similarity \div 2, 10000 * n,
                            <<n, best.best_similarity>> \in SimilarityOffTies)
    IN  <<PyInt(score), IF score = 0 THEN None ELSE best.best_match_info>>

\* return round(best_similarity * 100), best_match_info
LoopResult(best, reference_project) ==
    LET n == RefTagCount(reference_project)
    IN  <<PyInt(RoundFloat(best.best_similarity \div 2, 10000 * n,
                           <<n, best.best_similarity>> \in SimilarityOffTies)),
          best.best_match_info>>

RECURSIVE LoopFrom(_, _, _, _)
LoopFrom(best, consultant_projects, reference_project, now) ==
    IF consultant_projects = <<>> THEN best
    ELSE LoopFrom(LoopBody(best, Head(consultant_projects), reference_project, now, now),
                  Tail(consultant_projects), reference_project, now)

\* The whole function, every clock read giving the same month.
calculate_project_similarity(consultant_projects, reference_project, now) ==
    IF GuardReturns(consultant_projects, reference_project)
    THEN GuardResult
    ELSE LoopResult(LoopFrom(BestAtStart, consultant_projects, reference_project, now),
                    reference_project)

(***************************************************************************)
(* The project catalogue and the experiences the model draws from.         *)
(***************************************************************************)
\* The month datetime.now() gives at the start, and how far it may advance.
NowYear == 2025
NowMonth == 12
MaxClockAdvance == 1
MaxExperiences == 2     \* experiences per consultant

Project(id, name, client, domain_tags) ==
    [k |-> "Project", id |-> id, name |-> name, client |-> client,
     domain_tags |-> domain_tags]

\* A domain_tags text of ManyTags tags: "ai", then two-digit numbers.
ManyTags == 80
RECURSIVE TagText(_)
TagText(n) ==
    IF n = 1 THEN <<"a", "i">>
    ELSE TagText(n - 1) \o <<",", Digits[((n - 2) \div 10) + 1], Digits[((n - 2) % 10) + 1]>>

\* Two projects with the same client and tag set written differently, one
\* that shares the client and one tag, one without client and tags, and one
\* without client whose many tags include one of the others', and one
\* with a client and no tags.
ProjectCatalogue == <<
    Project(1, "AI Workshop", PyStr(<<"F", "S">>),
            PyStr(<<"A", "I", ",", " ", "T", "r">>)),
    Project(2, "AI Training", PyStr(<<" ", "f", "s">>),
            PyStr(<<"t", "r", ",", "a", "i", ",", ",", "A", "I">>)),
    Project(3, "AI Day", PyStr(<<"f", "s">>), PyStr(<<"a", "i">>)),
    Project(4, "Untitled", None, None),
    Project(5, "Survey", None, PyStr(TagText(ManyTags))),
    Project(6, "Retreat", PyStr(<<"F", "s">>), None) >>

ConsultantProject(project, end_year, end_month, intensity_level, role) ==
    [project |-> project, end_year |-> end_year, end_month |-> end_month,
     intensity_level |-> intensity_level, role |-> role]

\* End dates: none, or six months before the start month, which one more
\* month takes out of the last semester.
EndDates == {<<None, None>>, <<PyInt(NowYear), PyInt(NowMonth - 6)>>}

Intensities == {PyInt(2), PyInt(5)}

\* Experiences on the projects that have a client and tags.
ExperiencePool ==
    {ConsultantProject(ProjectCatalogue[p], e[1], e[2], i,
                       IF i = PyInt(5) THEN PyStr(<<"L", "e", "a", "d">>) ELSE None) :
        p \in 1..3, e \in EndDates, i \in Intensities}

ExperienceLists == UNION {[1..n -> ExperiencePool] : n \in 0..MaxExperiences}

References == {None, ProjectCatalogue[1], ProjectCatalogue[3], ProjectCatalogue[4],
               ProjectCatalogue[5]}

\* The calls: every list of experiences against a reference with few tags
\* (or none), and the lists of up to two against the reference with many.
SimilarityInputs ==
    [used : {TRUE}, consultant_projects : ExperienceLists,
     reference_project : References \ {ProjectCatalogue[5]}]
    \cup [used : {TRUE},
          consultant_projects : {l \in ExperienceLists : Len(l) <= 2},
          reference_project : {ProjectCatalogue[5]}]

StartClock == [year |-> NowYear, month |-> NowMonth]

\* The months since the start month.
ClockAdvance(now) == (now.year - NowYear) * 12 + (now.month - NowMonth)

\* What the next read of datetime.now() may give.
ClockReads(now) ==
    {now} \cup (IF ClockAdvance(now) < MaxClockAdvance THEN {NextMonth(now)} ELSE {})

(***************************************************************************)
(* calculate_project_similarity, one pass of the loop per step.            *)
(***************************************************************************)
InitSimilarity ==
    /\ clock = StartClock
    /\ sim_in \in SimilarityInputs
    /\ sim_pc = "call"
    /\ sim_i = 0
    /\ sim_best = Unused
    /\ sim_seen = <<>>
    /\ sim_recency = <<>>
    /\ sim_ret = NotReturned
    /\ WorkloadUnused /\ SkillFitUnused /\ FinalScoreUnused /\ MatchUnused /\ CallUnused /\ StoreUnused

\* The guard: return at once, or set up the loop.
SimGuard ==
    /\ sim_pc = "call"
    /\ IF GuardReturns(sim_in.consultant_projects, sim_in.reference_project)
       THEN /\ sim_pc' = "returned"
            /\ sim_ret' = Returned(GuardResult)
            /\ UNCHANGED sim_best
       ELSE /\ sim_pc' = "loop"
            /\ sim_best' = BestAtStart
            /\ UNCHANGED sim_ret
    /\ UNCHANGED <<clock, sim_in, sim_i, sim_seen, sim_recency, wlVars, sfVars, fsVars, matchVars,
                   callVars, storeVars>>

\* One pass of the loop body; the clock is read once for the recency factor
\* and, for a new best match, once more for the description.  An end date
\* datetime() rejects ends the call with its ValueError.
SimPass ==
    /\ sim_pc = "loop"
    /\ sim_i < Len(sim_in.consultant_projects)
    /\ \E now1 \in ClockReads(clock) :
         \E now2 \in ClockReads(now1) :
            LET cp == sim_in.consultant_projects[sim_i + 1]
            IN  IF DatetimeRaises(cp.end_year, cp.end_month)
                THEN /\ sim_pc' = "raised"
                     /\ clock' = now1
                     /\ UNCHANGED <<sim_best, sim_seen, sim_recency, sim_i>>
                ELSE /\ sim_best' = LoopBody(sim_best, cp, sim_in.reference_project,
                                             now1, now2)
                     /\ sim_seen' = Append(sim_seen,
                                           SimilarityOf(cp, sim_in.reference_project,
                                                        now1).similarity)
                     /\ sim_recency' = Append(sim_recency,
                                              calculate_recency_factor(cp.end_year,
                                                                       cp.end_month, now1))
                     /\ clock' = now2
                     /\ sim_i' = sim_i + 1
                     /\ UNCHANGED sim_pc
    /\ UNCHANGED <<sim_in, sim_ret, wlVars, sfVars, fsVars, matchVars,
                   callVars, storeVars>>

\* The loop is over: return.
SimReturn ==
    /\ sim_pc = "loop"
    /\ sim_i = Len(sim_in.consultant_projects)
    /\ sim_pc' = "returned"
    /\ sim_ret' = Returned(LoopResult(sim_best, sim_in.reference_project))
    /\ UNCHANGED <<clock, sim_in, sim_i, sim_best, sim_seen, sim_recency, wlVars, sfVars, fsVars, matchVars,
                   callVars, storeVars>>

NextSimilarity == SimGuard \/ SimPass \/ SimReturn

SpecSimilarity == InitSimilarity /\ [][NextSimilarity]_vars

(***************************************************************************)
(* Claims about calculate_project_similarity (SpecSimilarity).             *)
(***************************************************************************)
\* C9: calculate_project_similarity returns (0, None) whenever the reference
\* project is absent or the experience list is empty, and no experience is
\* evaluated.
C9_GuardReturnsZeroNone ==
    (/\ sim_pc = "returned"
     /\ (sim_in.reference_project.k = "None" \/ sim_in.consultant_projects = <<>>))
        => /\ sim_ret = Returned(<<PyInt(0), None>>)
           /\ sim_i = 0
           /\ sim_seen = <<>>

\* The call returned for an absent reference and two experiences.
C9_Witness ==
    /\ sim_pc = "returned"
    /\ sim_in.reference_project.k = "None"
    /\ Len(sim_in.consultant_projects) = 2
    /\ sim_ret = Returned(<<PyInt(0), None>>)

SeqMax(s) == IF s = <<>> THEN 0 ELSE CHOOSE m \in {s[i] : i \in 1..Len(s)} :
                                         \A i \in 1..Len(s) : s[i] <= m

\* The first pass whose similarity is the largest one seen.
FirstBest(seen) ==
    CHOOSE i \in 1..Len(seen) :
        /\ seen[i] = SeqMax(seen)
        /\ \A j \in 1..(i - 1) : seen[j] < seen[i]

\* best_match_info describes experience cp of the reference.
DescribesExperience(info, cp, reference_project) ==
    /\ info.k = "info"
    /\ info.project_name = cp.project.name
    /\ info.project_id = cp.project.id
    /\ info.role = cp.role
    /\ info.intensity = cp.intensity_level
    /\ info.client_match
           = (/\ ClientOf(cp.project) # <<>>
              /\ ClientOf(cp.project) = ClientOf(reference_project))
    /\ info.common_tags
           = Cardinality(normalize_tags(reference_project.domain_tags)
                             \cap normalize_tags(cp.project.domain_tags))
    /\ info.total_ref_tags = Cardinality(normalize_tags(reference_project.domain_tags))

\* C10: the best match is the strict maximum with first-wins ties: after every
\* pass, and in the returned value, the metadata is that of the earliest
\* experience with the highest similarity seen; a later experience with an
\* equal or lower similarity never replaces it.
C10_FirstMaximumWins ==
    (sim_pc \in {"loop", "returned"} /\ SeqMax(sim_seen) > 0)
        => /\ sim_best.best_similarity = SeqMax(sim_seen)
           /\ DescribesExperience(sim_best.best_match_info,
                                  sim_in.consultant_projects[FirstBest(sim_seen)],
                                  sim_in.reference_project)
           /\ sim_ret.returned => sim_ret.value[2] = sim_best.best_match_info

\* Two experiences on different projects tie for the highest similarity and
\* the first one's metadata is returned.
C10_Witness ==
    /\ sim_pc = "returned"
    /\ Len(sim_seen) = 2
    /\ sim_seen[1] = sim_seen[2] /\ sim_seen[1] > 0
    /\ sim_in.consultant_projects[1].project.id # sim_in.consultant_projects[2].project.id
    /\ sim_ret.value[2].k = "info"
    /\ sim_ret.value[2].project_id = sim_in.consultant_projects[1].project.id

(***************************************************************************)
(* safe_int                                                                *)
(***************************************************************************)
IsDigit(c) == \E d \in 1..Len(Digits) : Digits[d] = c
DigitValue(c) == (CHOOSE d \in 1..Len(Digits) : Digits[d] = c) - 1

RECURSIVE DigitsValue(_, _)
DigitsValue(s, acc) ==
    IF s = <<>> THEN acc ELSE DigitsValue(Tail(s), 10 * acc + DigitValue(Head(s)))

\* int(s) for a str: surrounding whitespace and a sign are accepted, then
\* decimal digits; None stands for the ValueError of anything else.
IntOfStr(s) ==
    LET t == Strip(s)
        signed == t # <<>> /\ Head(t) \in {"+", "-"}
        body == IF signed THEN Tail(t) ELSE t
    IN  IF body # <<>> /\ \A i \in 1..Len(body) : IsDigit(body[i])
        THEN PyInt(IF signed /\ Head(t) = "-" THEN 0 - DigitsValue(body, 0)
                   ELSE DigitsValue(body, 0))
        ELSE None

\* The TypeError of max(min_val, None) or min(max_val, None).
TypeError == [k |-> "TypeError", v |-> 0]

safe_int(value, default, min_val, max_val) ==
    LET converted == IF value.k = "int" THEN value
                     ELSE IF value.k = "str" THEN IntOfStr(value.v)
                     ELSE None
        result == IF converted.k = "int" THEN converted ELSE default
    IN  IF result.k # "int"
        THEN (IF min_val.k = "None" /\ max_val.k = "None" THEN result ELSE TypeError)
        ELSE LET lower == IF min_val.k = "None" THEN result.v ELSE Max(min_val.v, result.v)
             IN  PyInt(IF max_val.k = "None" THEN lower ELSE Min(max_val.v, lower))

(***************************************************************************)
(* The match page                                                          *)
(***************************************************************************)
MaxConsultants == 3

Consultant(id, skills, workloads, projects) ==
    [id |-> id, skills |-> skills, workloads |-> workloads, projects |-> projects]

MonthlyWorkload(month, work_days, perceived_load) ==
    [month |-> month, work_days |-> work_days, perceived_load |-> perceived_load]

\* What a consultant of the store may hold: no skill or every skill (the
\* first at level 5, the others at 2), a workload for the start month and
\* none for the others, no experience or a recent one on project 1.
SkillsHeld == {<<>>, [s \in SkillIds |-> IF s = 1 THEN 5 ELSE 2]}
WorkloadsHeld == {<<MonthlyWorkload(NowMonth, PyInt(10), PyInt(5))>>}
ProjectsHeld ==
    {<<>>,
     <<ConsultantProject(ProjectCatalogue[1], PyInt(NowYear), PyInt(NowMonth - 6),
                         PyInt(5), None)>>}

\* Consultant.query.all(): the ids are 1..n in query order.
Stores ==
    UNION {{[i \in 1..n |-> Consultant(i, p[i][1], p[i][2], p[i][3])] :
               p \in [1..n -> SkillsHeld \X WorkloadsHeld \X ProjectsHeld]} :
           n \in 0..MaxConsultants}

\* Form fields as sent: absent or a str.
MonthForm == {None, PyStr(<<"1">>)}
LevelForm == {None, PyStr(<<"5">>)}
ReferenceForm == {None, PyStr(<<"1">>), PyStr(<<"4">>), PyStr(<<"9">>)}

\* A GET carries no form; the requests drawn leave the level of a skill
\* that is not selected absent.
Requests ==
    {r \in [used : {TRUE}, method : {"GET", "POST"}, month : MonthForm,
            skill_ids : SUBSET SkillIds, skill_level : [SkillIds -> LevelForm],
            reference_project_id : ReferenceForm] :
        /\ \A s \in SkillIds \ r.skill_ids : r.skill_level[s] = None
        /\ r.method = "GET" => (r.skill_ids = {} /\ r.reference_project_id = None)}

\* Project.query.get(id)
ProjectGet(id) ==
    IF \E i \in 1..Len(ProjectCatalogue) : ProjectCatalogue[i].id = id
    THEN ProjectCatalogue[CHOOSE i \in 1..Len(ProjectCatalogue) : ProjectCatalogue[i].id = id]
    ELSE None

\* month
MatchMonth(req, now) == safe_int(req.month, PyInt(now.month), PyInt(1), PyInt(12)).v

\* required_skills: the selected skills in all_skills order with their level.
RECURSIVE RequiredFrom(_, _)
RequiredFrom(req, skill_id) ==
    IF skill_id > NumSkills THEN <<>>
    ELSE (IF skill_id \in req.skill_ids
          THEN <<<<skill_id, safe_int(req.skill_level[skill_id], PyInt(3), PyInt(1), PyInt(5)).v>>>>
          ELSE <<>>)
         \o RequiredFrom(req, skill_id + 1)

\* reference_project
ReferenceProject(req) ==
    LET reference_project_id == safe_int(req.reference_project_id, PyInt(0), None, None).v
    IN  IF reference_project_id > 0 THEN ProjectGet(reference_project_id) ELSE None

\* get_consultant_workload_for_month
get_consultant_workload_for_month(c, month) ==
    LET found == SelectSeq(c.workloads, LAMBDA w : w.month = month)
    IN  IF found # <<>>
        THEN calculate_workload_score(Head(found).work_days, Head(found).perceived_load)
        ELSE calculate_workload_score(PyInt(0), PyInt(0))

\* Mutant: without a reference project the project experience is 0, not None.
ProjectExperience_mut_zero(c, reference_project, now) ==
    IF reference_project.k # "None"
    THEN calculate_project_similarity(c.projects, reference_project, now)
    ELSE <<PyInt(0), None>>

\* project_experience, best_match_info
ProjectExperience(c, reference_project, now) ==
    IF reference_project.k # "None"
    THEN calculate_project_similarity(c.projects, reference_project, now)
    ELSE <<None, None>>

\* The entry appended to results for consultant c.
MatchResult(c, required_skills, reference_project, month, now) ==
    LET skill_fit == calculate_skill_fit(c.skills, required_skills)
        workload_data == get_consultant_workload_for_month(c, month)
        availability == workload_data.availability_percent
        experience == ProjectExperience(c, reference_project, now)
    IN  [id |-> c.id,
         final_score |-> calculate_final_score(skill_fit, availability, experience[1]),
         skill_fit |-> skill_fit,
         availability |-> availability,
         project_experience |-> experience[1],
         best_match_info |-> experience[2],
         workload_data |-> workload_data]

\* Insert x behind every entry whose final_score is at least its own.
RECURSIVE InsertByScore(_, _)
InsertByScore(sorted, x) ==
    IF sorted = <<>> THEN <<x>>
    ELSE IF Head(sorted).final_score >= x.final_score
         THEN <<Head(sorted)>> \o InsertByScore(Tail(sorted), x)
         ELSE <<x>> \o sorted

\* Insert x in front of every entry whose final_score is at most its own.
RECURSIVE InsertByScoreFront(_, _)
InsertByScoreFront(sorted, x) ==
    IF sorted = <<>> THEN <<x>>
    ELSE IF Head(sorted).final_score > x.final_score
         THEN <<Head(sorted)>> \o InsertByScoreFront(Tail(sorted), x)
         ELSE <<x>> \o sorted

RECURSIVE SortFrom(_, _)
SortFrom(sorted, rest) ==
    IF rest = <<>> THEN sorted ELSE SortFrom(InsertByScore(sorted, Head(rest)), Tail(rest))

RECURSIVE SortFrontFrom(_, _)
SortFrontFrom(sorted, rest) ==
    IF rest = <<>> THEN sorted
    ELSE SortFrontFrom(InsertByScoreFront(sorted, Head(rest)), Tail(rest))

\* Mutant: a descending sort that reverses the order of equal scores.
SortByFinalScoreDesc_mut_unstable(results) == SortFrontFrom(<<>>, results)

\* results.sort(key=lambda x: x['final_score'], reverse=True): list.sort is
\* stable, and with reverse=True equal keys keep their original order.
SortByFinalScoreDesc(results) == SortFrom(<<>>, results)

InitMatch ==
    /\ clock = StartClock
    /\ consultants \in Stores
    /\ match_req \in Requests
    /\ match_scored = <<>>
    /\ match_results = NotReturned
    /\ WorkloadUnused /\ SkillFitUnused /\ FinalScoreUnused /\ SimilarityUnused
    /\ CallUnused /\ StoreUnused

\* The match page handles the request, from the form to the sorted results.
Match ==
    /\ ~match_results.returned
    /\ LET month == MatchMonth(match_req, clock)
           required_skills == RequiredFrom(match_req, 1)
           reference_project == ReferenceProject(match_req)
           results == [i \in 1..Len(consultants) |->
                          MatchResult(consultants[i], required_skills, reference_project,
                                      month, clock)]
       IN  IF match_req.method = "POST"
           THEN /\ match_scored' = results
                /\ match_results' = Returned(SortByFinalScoreDesc(results))
           ELSE /\ match_scored' = <<>>
                /\ match_results' = Returned(<<>>)
    /\ UNCHANGED <<clock, consultants, match_req, wlVars, sfVars, fsVars,
                   sim_in, sim_pc, sim_i, sim_best, sim_seen, sim_recency, sim_ret,
                   callVars, storeVars>>

SpecMatch == InitMatch /\ [][Match]_vars

(***************************************************************************)
(* Claims about the match page                                             *)
(***************************************************************************)
\* The form names a project that exists.
ReferenceInEffect ==
    /\ match_req.reference_project_id.k = "str"
    /\ \E i \in 1..Len(ProjectCatalogue) :
          /\ ProjectCatalogue[i].id > 0
          /\ IntOfStr(match_req.reference_project_id.v) = PyInt(ProjectCatalogue[i].id)

TheReference ==
    ProjectCatalogue[CHOOSE i \in 1..Len(ProjectCatalogue) :
        IntOfStr(match_req.reference_project_id.v) = PyInt(ProjectCatalogue[i].id)]

\* score is the integer nearest to hundredths / 100.
NearestTo(score, hundredths) ==
    /\ 100 * score - hundredths <= 50
    /\ hundredths - 100 * score <= 50

TwoWeight(r) == 65 * r.skill_fit + 35 * r.availability
ThreeWeight(r) == 55 * r.skill_fit + 30 * r.availability + 15 * r.project_experience.v

\* No experience of consultant c has a similarity above 0 to the reference.
NoSimilarExperience(c) ==
    \A i \in 1..Len(c.projects) :
        SimilarityOf(c.projects[i], TheReference, clock).similarity = 0

\* C7: on the match page a consultant's final score is the two-weight value
\* (0.65 skill fit + 0.35 availability, project experience absent) exactly
\* when no reference project is in effect; with a reference project in
\* effect it is the three-weight value, and a consultant with no experience
\* or none of similarity above 0 enters it with project_experience 0.
C7_TwoWeightIffNoReference ==
    (match_results.returned /\ match_req.method = "POST")
        => \A i \in 1..Len(match_results.value) :
              LET r == match_results.value[i]
                  c == consultants[r.id]
              IN  /\ ReferenceInEffect
                        => /\ r.project_experience.k = "int"
                           /\ NearestTo(r.final_score, ThreeWeight(r))
                           /\ (c.projects = <<>> \/ NoSimilarExperience(c))
                                 => /\ r.project_experience = PyInt(0)
                                    /\ r.best_match_info = None
                  /\ ~ReferenceInEffect
                        => /\ r.project_experience = None
                           /\ r.best_match_info = None
                           /\ NearestTo(r.final_score, TwoWeight(r))

\* A reference project is in effect and a consultant without experiences is
\* scored with project_experience 0 to a final score that the two-weight
\* value does not give.
C7_Witness ==
    /\ match_results.returned /\ match_req.method = "POST"
    /\ ReferenceInEffect
    /\ \E i \in 1..Len(match_results.value) :
          LET r == match_results.value[i]
          IN  /\ consultants[r.id].projects = <<>>
              /\ r.project_experience = PyInt(0)
              /\ ~NearestTo(r.final_score, TwoWeight(r))

\* The place of consultant id in the scoring order.
ScoredAt(id) == CHOOSE k \in 1..Len(match_scored) : match_scored[k].id = id

\* C8: the match page returns the scored consultants, each exactly once,
\* by final_score descending, and consultants of equal final_score in the
\* order in which they were scored, which is the order of the query.
C8_StableDescendingRanking ==
    (match_results.returned /\ match_req.method = "POST")
        => LET res == match_results.value
           IN  /\ Len(match_scored) = Len(consultants)
               /\ \A k \in 1..Len(consultants) : match_scored[k].id = consultants[k].id
               /\ Len(res) = Len(match_scored)
               /\ \A k \in 1..Len(match_scored) :
                     Cardinality({i \in 1..Len(res) : res[i] = match_scored[k]}) = 1
               /\ \A i, j \in 1..Len(res) :
                     i < j => \/ res[i].final_score > res[j].final_score
                              \/ /\ res[i].final_score = res[j].final_score
                                 /\ ScoredAt(res[i].id) < ScoredAt(res[j].id)

\* Three consultants are ranked, the sort moved one of them, and two of
\* equal final_score stand in their scoring order.
C8_Witness ==
    /\ match_results.returned /\ match_req.method = "POST"
    /\ Len(match_results.value) = 3
    /\ match_results.value # match_scored
    /\ \E i, j \in 1..3 :
          /\ i < j
          /\ match_results.value[i].final_score = match_results.value[j].final_score
          /\ match_results.value[i].id < match_results.value[j].id

(***************************************************************************)
(* Claims about the score and the metadata calculate_project_similarity    *)
(* returns (SpecSimilarity).                                               *)
(***************************************************************************)
\* The exact value of 100 * similarity is (s \div 2) / SimilarityUnits.
SimilarityUnits == 10000 * RefTagCount(sim_in.reference_project)

\* score is an integer nearest to 100 times the exact value of best.
NearestScore(score, best) ==
    /\ score \in 0..100
    /\ 2 * (SimilarityUnits * score - (best \div 2)) <= SimilarityUnits
    /\ 2 * ((best \div 2) - SimilarityUnits * score) <= SimilarityUnits

\* C11: with a reference project and at least one experience,
\* calculate_project_similarity returns the integer nearest to 100 times
\* the largest similarity of the experiences; the metadata is None exactly
\* when no experience has a similarity above 0, and is otherwise that of
\* the winning experience, whatever the score rounds to.
C11_ScoreAndMetadata ==
    (/\ sim_pc = "returned"
     /\ sim_in.reference_project.k # "None"
     /\ sim_in.consultant_projects # <<>>)
        => /\ Len(sim_seen) = Len(sim_in.consultant_projects)
           /\ sim_ret.value[1].k = "int"
           /\ NearestScore(sim_ret.value[1].v, SeqMax(sim_seen))
           /\ (sim_ret.value[2] = None) <=> (SeqMax(sim_seen) = 0)
           /\ SeqMax(sim_seen) > 0
                 => DescribesExperience(sim_ret.value[2],
                                        sim_in.consultant_projects[FirstBest(sim_seen)],
                                        sim_in.reference_project)

\* The winning experience has a similarity above 0 that rounds to the score
\* 0, and its metadata is returned.
C11_Witness ==
    /\ sim_pc = "returned"
    /\ Len(sim_seen) = 2
    /\ SeqMax(sim_seen) > 0
    /\ sim_ret.value[1] = PyInt(0)
    /\ sim_ret.value[2].k = "info"
    /\ sim_ret.value[2].project_id = sim_in.consultant_projects[FirstBest(sim_seen)].project.id

(***************************************************************************)
(* calculate_project_similarity on one experience, drawn from every kind   *)
(* of end date and intensity (SpecOneExperience).                          *)
(***************************************************************************)
MaxIntensityIn == 6

\* The first of the month that lies months before the start month.
EndDateBefore(months) ==
    LET index == NowYear * 12 + (NowMonth - 1) - months
    IN  <<PyInt(index \div 12), PyInt((index % 12) + 1)>>

\* Months before the start month at both sides of each bucket's limits, and
\* one month ahead.
EndOffsets == {0 - 1, 0, 1, 6, 7, 18, 19, 36, 37}

\* End dates as stored: integer columns that may be NULL, the month not
\* held to 1..12, the year not held to any range.
EndDatesStored ==
    {EndDateBefore(m) : m \in EndOffsets}
        \cup {<<None, None>>, <<PyInt(NowYear), None>>, <<None, PyInt(6)>>,
              <<PyInt(NowYear), PyInt(0)>>, <<PyInt(NowYear), PyInt(13)>>,
              <<PyInt(0 - 1), PyInt(6)>>}

IntensitiesStored == {None} \cup {PyInt(i) : i \in 0..MaxIntensityIn}

StoredExperiences ==
    {ConsultantProject(ProjectCatalogue[p], e[1], e[2], i, None) :
        p \in 1..Len(ProjectCatalogue), e \in EndDatesStored, i \in IntensitiesStored}

InitOneExperience ==
    /\ clock = StartClock
    /\ sim_in \in [used : {TRUE},
                   consultant_projects : {<<cp>> : cp \in StoredExperiences},
                   reference_project :
                       {None} \cup {ProjectCatalogue[p] : p \in 1..Len(ProjectCatalogue)}]
    /\ sim_pc = "call"
    /\ sim_i = 0
    /\ sim_best = Unused
    /\ sim_seen = <<>>
    /\ sim_recency = <<>>
    /\ sim_ret = NotReturned
    /\ WorkloadUnused /\ SkillFitUnused /\ FinalScoreUnused /\ MatchUnused /\ CallUnused /\ StoreUnused

SpecOneExperience == InitOneExperience /\ [][NextSimilarity]_vars

(***************************************************************************)
(* Claims about one experience (SpecOneExperience).                        *)
(***************************************************************************)
TheExperience == sim_in.consultant_projects[1]

\* The experience's end date lies in the start month or the month before,
\* and its intensity is 5.
RecentAndIntense ==
    /\ <<TheExperience.end_year, TheExperience.end_month>>
           \in {EndDateBefore(0), EndDateBefore(1)}
    /\ TheExperience.intensity_level = PyInt(5)

\* The experience's tags include every tag of the reference.
CoversReferenceTags ==
    normalize_tags(sim_in.reference_project.domain_tags)
        \subseteq normalize_tags(TheExperience.project.domain_tags)

\* Both projects have a client text, equal but for letter case.
SameClientText ==
    /\ TheExperience.project.client.k = "str"
    /\ sim_in.reference_project.client.k = "str"
    /\ Lower(TheExperience.project.client.v) = Lower(sim_in.reference_project.client.v)

\* Both projects have a client, equal but for letter case and the
\* whitespace around it.
SameClient ==
    /\ Strip(StrOrEmpty(sim_in.reference_project.client)) # <<>>
    /\ Lower(Strip(StrOrEmpty(TheExperience.project.client)))
           = Lower(Strip(StrOrEmpty(sim_in.reference_project.client)))

ReturnedForReference ==
    /\ sim_pc = "returned"
    /\ sim_in.reference_project.k # "None"

\* C12 as stated: the same client but for case, tags that cover the
\* reference's, an end date within the last month and intensity 5 give the
\* score 100, and no score exceeds 100.
C12_AsStated ==
    ReturnedForReference
        => /\ sim_ret.value[1].v <= 100
           /\ (SameClientText /\ CoversReferenceTags /\ RecentAndIntense)
                 => sim_ret.value[1] = PyInt(100)

\* C12, amended: when the reference has a client that is not blank and at
\* least one tag, an experience with the same client but for case, tags
\* that cover the reference's, an end date within the last month and
\* intensity 5 has similarity 1 and gives the score 100 (client_match 1,
\* tag_overlap 1, both factors 1.0); no experience's similarity exceeds 1
\* and no score 100.
C12_FullMatchGives100 ==
    ReturnedForReference
        => /\ sim_ret.value[1].v <= 100
           /\ \A i \in 1..Len(sim_seen) :
                 sim_seen[i] \div 2 <= 1000000 * RefTagCount(sim_in.reference_project)
           /\ (/\ SameClient /\ CoversReferenceTags /\ RecentAndIntense
               /\ normalize_tags(sim_in.reference_project.domain_tags) # {})
                 => /\ sim_ret.value[1] = PyInt(100)
                    /\ sim_seen = <<2 * 1000000 * RefTagCount(sim_in.reference_project)>>

\* An experience on another project than the reference, with the client in
\* another case and the tags written differently, scores 100.
C12_Witness ==
    /\ ReturnedForReference
    /\ SameClient /\ CoversReferenceTags /\ RecentAndIntense
    /\ TheExperience.project.id # sim_in.reference_project.id
    /\ TheExperience.project.client # sim_in.reference_project.client
    /\ Cardinality(normalize_tags(sim_in.reference_project.domain_tags)) = 2
    /\ sim_ret.value[1] = PyInt(100)

(***************************************************************************)
(* Calls of calculate_recency_factor (SpecRecency).                        *)
(***************************************************************************)
MaxYearsBack == 4

\* Every month from MaxYearsBack years before the start year to the year
\* after it, the missing and the zero year and month, and a month and a
\* year datetime() rejects.
RecencyDates ==
    {<<PyInt(y), PyInt(mo)>> : y \in (NowYear - MaxYearsBack)..(NowYear + 1), mo \in 1..12}
        \cup {<<None, None>>, <<PyInt(NowYear), None>>, <<None, PyInt(6)>>,
              <<PyInt(NowYear), PyInt(0)>>, <<PyInt(0), PyInt(6)>>,
              <<PyInt(NowYear), PyInt(13)>>, <<PyInt(0 - 1), PyInt(6)>>}

\* The months datetime.now() may give.
ClocksFromStart ==
    {[year |-> NowYear + ((NowMonth - 1 + a) \div 12), month |-> ((NowMonth - 1 + a) % 12) + 1] :
        a \in 0..MaxClockAdvance}

RecencyCalls ==
    {[used |-> TRUE, fn |-> "calculate_recency_factor",
      end_year |-> d[1], end_month |-> d[2]] : d \in RecencyDates}

InitRecency ==
    /\ clock \in ClocksFromStart
    /\ call_in \in RecencyCalls
    /\ call_out = NotReturned
    /\ WorkloadUnused /\ SkillFitUnused /\ FinalScoreUnused /\ SimilarityUnused
    /\ MatchUnused /\ StoreUnused

\* calculate_recency_factor returns, or datetime() raises.
RecencyCall ==
    /\ call_in.used /\ call_in.fn = "calculate_recency_factor"
    /\ call_out = NotReturned
    /\ call_out' = IF DatetimeRaises(call_in.end_year, call_in.end_month)
                   THEN Raised("ValueError")
                   ELSE Returned(calculate_recency_factor(call_in.end_year,
                                                          call_in.end_month, clock))
    /\ UNCHANGED <<call_in, wlVars, sfVars, fsVars, simVars, matchVars, storeVars>>

SpecRecency == InitRecency /\ [][RecencyCall]_vars

\* The whole-month difference between the clock and the end date.
MonthDifference ==
    (clock.year - call_in.end_year.v) * 12 + (clock.month - call_in.end_month.v)

IsEndDate == call_in.end_year.v \in 1..9999 /\ call_in.end_month.v \in 1..12

\* C13: for an end date, calculate_recency_factor is a function of the
\* whole-month difference m alone: 1.0 for m <= 6, 0.85 for 7..18, 0.70
\* for 19..36, 0.60 beyond; 0.75 when the year or the month is missing.
C13_RecencyBuckets ==
    (call_in.used /\ call_in.fn = "calculate_recency_factor")
        => /\ (call_in.end_year = None \/ call_in.end_month = None)
                 => call_out \in {NotReturned, Returned(75)}
           /\ (call_in.end_year # None /\ call_in.end_month # None /\ IsEndDate)
                 => call_out \in {NotReturned,
                                  Returned(IF MonthDifference <= 6 THEN 100
                                           ELSE IF MonthDifference <= 18 THEN 85
                                           ELSE IF MonthDifference <= 36 THEN 70
                                           ELSE 60)}

\* An end date exactly 6 months back, after the clock moved on a month,
\* gives 1.0.
C13_Witness ==
    /\ call_in.used /\ call_in.fn = "calculate_recency_factor"
    /\ call_in.end_year # None /\ call_in.end_month # None /\ IsEndDate
    /\ clock # StartClock
    /\ MonthDifference = 6
    /\ call_out = Returned(100)

(***************************************************************************)
(* The three scores together (SpecScores): a call of calculate_skill_fit,  *)
(* of calculate_final_score or of calculate_project_similarity.            *)
(***************************************************************************)
InitScores == InitSkillFit \/ InitFinalScore \/ InitSimilarity \/ InitOneExperience

NextScores == SkillFitCall \/ FinalScoreCall \/ NextSimilarity

SpecScores == InitScores /\ [][NextScores]_vars

\* C14: skill_fit, project_experience and final_score are integers in
\* 0..100, for held levels 0..5 (0: the skill is not held), required levels
\* up to 5, availability 0..100, every experience list, and with or
\* without a project experience in the final score.
C14_ScoresInRange ==
    /\ sf_out.returned => sf_out.value \in 0..100
    /\ fs_out.returned => fs_out.value \in 0..100
    /\ sim_ret.returned => (sim_ret.value[1].k = "int" /\ sim_ret.value[1].v \in 0..100)

\* The three-weight formula reaches the top of the range.
C14_Witness ==
    /\ fs_out.returned
    /\ fs_in.project_experience = PyInt(100)
    /\ fs_in.skill_fit = 100 /\ fs_in.availability = 100
    /\ fs_out.value = 100

(***************************************************************************)
(* Calls of safe_int (SpecSafeInt).                                        *)
(***************************************************************************)
\* Values as a form or a caller gives them: absent, an int, a numeric str
\* (signed and padded too), a str that is no number, the empty str.
SafeIntValues ==
    {None, PyInt(0 - 3), PyInt(7), PyInt(40), PyStr(<<"1", "2">>),
     PyStr(<<" ", "-", "4", " ">>), PyStr(<<"9", "9">>), PyStr(<<"a", "b", "c">>),
     PyStr(<<"1", ".", "5">>), PyStr(<<>>)}

SafeIntDefaults == {None, PyInt(0), PyInt(20)}
SafeIntMins == {None, PyInt(1)}
SafeIntMaxs == {None, PyInt(12)}

SafeIntCalls ==
    [used : {TRUE}, fn : {"safe_int"}, value : SafeIntValues, default : SafeIntDefaults,
     min_val : SafeIntMins, max_val : SafeIntMaxs]

InitSafeInt ==
    /\ call_in \in SafeIntCalls
    /\ call_out = NotReturned
    /\ WorkloadUnused /\ SkillFitUnused /\ FinalScoreUnused /\ SimilarityUnused
    /\ ClockUnused /\ MatchUnused /\ StoreUnused

\* safe_int returns, or max() / min() raises.
SafeIntCall ==
    /\ call_in.used /\ call_in.fn = "safe_int"
    /\ call_out = NotReturned
    /\ LET r == safe_int(call_in.value, call_in.default, call_in.min_val, call_in.max_val)
       IN  call_out' = IF r = TypeError THEN Raised("TypeError") ELSE Returned(r)
    /\ UNCHANGED <<call_in, wlVars, sfVars, fsVars, simVars, matchVars, storeVars>>

SpecSafeInt == InitSafeInt /\ [][SafeIntCall]_vars

\* int(value) succeeds.
Convertible(value) ==
    \/ value.k = "int"
    \/ value.k = "str" /\ IntOfStr(value.v) # None

\* C15: safe_int returns for every value, default and bounds and never
\* raises; a value that is not convertible gives the default, and with
\* bounds the result, the default too, lies within them.
C15_SafeIntTotal ==
    (call_in.used /\ call_in.fn = "safe_int")
        => /\ call_out \in {NotReturned} \cup {Returned(None)}
                              \cup {Returned(PyInt(n)) : n \in (0 - 100)..100}
           /\ call_out.returned
                 => /\ (~Convertible(call_in.value)
                        /\ call_in.min_val = None /\ call_in.max_val = None)
                          => call_out.value = call_in.default
                    /\ call_in.min_val # None
                          => (call_out.value.k = "int"
                              /\ call_out.value.v >= call_in.min_val.v)
                    /\ call_in.max_val # None
                          => (call_out.value.k = "int"
                              /\ call_out.value.v <= call_in.max_val.v)

(***************************************************************************)
(* The scoring functions on malformed and missing data (SpecEngine).       *)
(***************************************************************************)
\* work_days and perceived_load as a caller may give them: absent, ints,
\* a numeric str, a str that is no number, the empty str.
RawCounts ==
    {None, PyInt(0 - 1), PyInt(8), PyStr(<<"7">>), PyStr(<<"a", "b", "c">>), PyStr(<<>>)}

\* int(x or 0): None, 0 and '' give 0; None here stands for the ValueError
\* of a str that int() rejects.
IntOfCount(x) ==
    IF x.k = "str"
    THEN (IF x.v = <<>> THEN PyInt(0) ELSE IntOfStr(x.v))
    ELSE PyInt(IntOrZero(x))

WorkloadCalls ==
    [used : {TRUE}, fn : {"calculate_workload_score"},
     work_days : RawCounts, perceived_load : RawCounts]

InitWorkloadRaw ==
    /\ call_in \in WorkloadCalls
    /\ call_out = NotReturned
    /\ WorkloadUnused /\ SkillFitUnused /\ FinalScoreUnused /\ SimilarityUnused
    /\ ClockUnused /\ MatchUnused /\ StoreUnused

\* calculate_workload_score returns, or int() raises at line 165 or 166.
WorkloadRawCall ==
    /\ call_in.used /\ call_in.fn = "calculate_workload_score"
    /\ call_out = NotReturned
    /\ LET work_days == IntOfCount(call_in.work_days)
           perceived_load == IntOfCount(call_in.perceived_load)
       IN  call_out' = IF work_days = None \/ perceived_load = None
                       THEN Raised("ValueError")
                       ELSE Returned(calculate_workload_score(work_days, perceived_load))
    /\ UNCHANGED <<call_in, wlVars, sfVars, fsVars, simVars, matchVars, storeVars>>

InitEngine ==
    InitWorkloadRaw \/ InitRecency \/ InitOneExperience \/ InitSkillFit \/ InitFinalScore

NextEngine ==
    WorkloadRawCall \/ RecencyCall \/ NextSimilarity \/ SkillFitCall \/ FinalScoreCall

SpecEngine == InitEngine /\ [][NextEngine]_vars

\* C16: no scoring function raises, whatever the data: a count that is no
\* number, an absent value, a level or intensity out of range, a missing
\* end date or an end month outside 1..12.
C16_EngineNeverRaises ==
    /\ call_out = NotReturned \/ call_out.returned
    /\ sim_pc # "raised"

(***************************************************************************)
(* normalize_tags on two tag texts, and the similarity either text gives   *)
(* as the reference's and as the experience's (SpecTags).                  *)
(***************************************************************************)
MaxEntries == 2

\* The entries a tag text is made of, each with the tag it stands for (none
\* for a blank entry): one tag written in two ways and another.
TagEntries ==
    {[text |-> <<>>, tag |-> <<>>],
     [text |-> <<" ">>, tag |-> <<>>],
     [text |-> <<"a", "i">>, tag |-> <<"a", "i">>],
     [text |-> <<" ", "A", "I">>, tag |-> <<"a", "i">>],
     [text |-> <<"T", "r", " ">>, tag |-> <<"t", "r">>]}

\* A domain_tags value: NULL, or the entries joined by commas.
TagInputs ==
    {[none |-> TRUE, entries |-> <<>>]}
        \cup {[none |-> FALSE, entries |-> es] :
                 es \in UNION {[1..n -> TagEntries] : n \in 0..MaxEntries}}

\* ",".join(texts)
RECURSIVE JoinEntries(_)
JoinEntries(entries) ==
    IF entries = <<>> THEN <<>>
    ELSE IF Len(entries) = 1 THEN entries[1].text
    ELSE entries[1].text \o <<",">> \o JoinEntries(Tail(entries))

TagTextOf(input) == IF input.none THEN None ELSE PyStr(JoinEntries(input.entries))

\* The tags the entries stand for.
TagsMeant(input) ==
    {input.entries[i].tag : i \in 1..Len(input.entries)} \ {<<>>}

\* A project with client "fs" and the given tags, an experience on a
\* project that ended in the start month with intensity 5.
TaggedProject(domain_tags) == Project(7, "Tagged", PyStr(<<"f", "s">>), domain_tags)
ExperienceOn(project) ==
    ConsultantProject(project, EndDateBefore(0)[1], EndDateBefore(0)[2], PyInt(5), None)

\* The projects the tagged one is compared with.
ComparedWith == {ProjectCatalogue[1], ProjectCatalogue[3]}

\* What a tag text yields: its tag set, the similarity results with the
\* text as the reference's, and with the text as the experience's.
TagsOutcome(domain_tags) ==
    [tags |-> normalize_tags(domain_tags),
     as_reference |->
         [p \in ComparedWith |->
             calculate_project_similarity(<<ExperienceOn(p)>>,
                                          TaggedProject(domain_tags), StartClock)],
     as_experience |->
         [p \in ComparedWith |->
             calculate_project_similarity(<<ExperienceOn(TaggedProject(domain_tags))>>,
                                          p, StartClock)]]

InitTags ==
    /\ call_in \in [used : {TRUE}, fn : {"normalize_tags"}, a : TagInputs, b : TagInputs]
    /\ call_out = NotReturned
    /\ WorkloadUnused /\ SkillFitUnused /\ FinalScoreUnused /\ SimilarityUnused
    /\ ClockUnused /\ MatchUnused /\ StoreUnused

\* Both texts are normalised and scored.
TagsCall ==
    /\ call_in.used /\ call_in.fn = "normalize_tags"
    /\ call_out = NotReturned
    /\ call_out' = Returned([a |-> TagsOutcome(TagTextOf(call_in.a)),
                             b |-> TagsOutcome(TagTextOf(call_in.b))])
    /\ UNCHANGED <<call_in, wlVars, sfVars, fsVars, simVars, matchVars, storeVars>>

SpecTags == InitTags /\ [][TagsCall]_vars

\* C17: two tag texts that stand for the same tags, however written
\* (case, whitespace, order, repeats, blank entries), normalise to the same
\* set, the tags themselves; an empty or absent text gives the empty set;
\* common_tags / total_ref_tags count the tags of the reference and those
\* shared, and the similarity result is the same for either text, as the
\* reference's and as the experience's.
C17_TagTextInsensitive ==
    (call_in.used /\ call_in.fn = "normalize_tags" /\ call_out.returned)
        => LET a == call_out.value.a
               b == call_out.value.b
           IN  /\ a.tags = TagsMeant(call_in.a)
               /\ (call_in.a.none \/ call_in.a.entries = <<>>) => a.tags = {}
               /\ \A p \in ComparedWith :
                     /\ a.as_reference[p][2] # None
                           => /\ a.as_reference[p][2].total_ref_tags
                                    = Cardinality(TagsMeant(call_in.a))
                              /\ a.as_reference[p][2].common_tags
                                    = Cardinality(TagsMeant(call_in.a)
                                                    \cap normalize_tags(p.domain_tags))
                     /\ TagsMeant(call_in.a) = {}
                           => (a.as_reference[p][2] # None
                                 => a.as_reference[p][2].common_tags = 0)
               /\ TagsMeant(call_in.a) = TagsMeant(call_in.b)
                     => /\ a.tags = b.tags
                        /\ a.as_reference = b.as_reference
                        /\ a.as_experience = b.as_experience

\* Two texts that differ in order, case and whitespace give the same two
\* tags and the same similarity to project 1, above 0.
C17_Witness ==
    /\ call_in.used /\ call_in.fn = "normalize_tags" /\ call_out.returned
    /\ call_in.a.entries = <<[text |-> <<"T", "r", " ">>, tag |-> <<"t", "r">>],
                             [text |-> <<" ", "A", "I">>, tag |-> <<"a", "i">>]>>
    /\ call_in.b.entries = <<[text |-> <<"a", "i">>, tag |-> <<"a", "i">>],
                             [text |-> <<"T", "r", " ">>, tag |-> <<"t", "r">>]>>
    /\ call_out.value.a.tags = {<<"a", "i">>, <<"t", "r">>}
    /\ call_out.value.a.as_reference[ProjectCatalogue[1]]
           = call_out.value.b.as_reference[ProjectCatalogue[1]]
    /\ call_out.value.a.as_reference[ProjectCatalogue[1]][1].v > 0

(***************************************************************************)
(* The store and the consultant pages                                      *)
(*                                                                         *)
(* db is the committed store: the consultant ids, the skill catalogue (a   *)
(* skill's id is its position), and the consultant_skill and               *)
(* monthly_workload rows in insertion order.  A request runs in one        *)
(* session with autoflush (Flask-SQLAlchemy's default; line 24 passes no   *)
(* session options), so each query of a handler sees the rows the handler  *)
(* has added or deleted so far; an exception rolls the session back.       *)
(***************************************************************************)
MaxRequests == 2        \* requests handled in one behaviour

LastMonth == 12         \* range(1, 13)

BASE_SKILLS ==
    << <<"D", "a", "t", "i">>, <<"P", "M">>, <<"A", "I">>,
       <<"C", "o", "r", "a", "g", "g", "i", "o", " ", "c", "i", "v", "i", "l", "e">>,
       <<"E", "m", "p", "o", "w", "e", "r", "i", "n", "g">> >>

ConsultantSkill(consultant_id, skill_id, level) ==
    [consultant_id |-> consultant_id, skill_id |-> skill_id, level |-> level]

WorkloadRow(consultant_id, month, work_days, perceived_load) ==
    [consultant_id |-> consultant_id, month |-> month,
     work_days |-> work_days, perceived_load |-> perceived_load]

\* The store after db.create_all() and seed_base_data().
SeededStore ==
    [consultants |-> {}, skills |-> BASE_SKILLS,
     consultant_skills |-> <<>>, workloads |-> <<>>]

\* query.first(): the first of the positions the filter selects, 0 if none.
FirstIndex(selected) ==
    IF selected = {} THEN 0
    ELSE CHOOSE i \in selected : \A j \in selected : i <= j

\* ConsultantSkill.query.filter_by(consultant_id=..., skill_id=...)
SkillRowsOf(rows, consultant_id, skill_id) ==
    {i \in 1..Len(rows) : /\ rows[i].consultant_id = consultant_id
                          /\ rows[i].skill_id = skill_id}

\* MonthlyWorkload.query.filter_by(consultant_id=..., month=...)
WorkloadRowsOf(rows, consultant_id, month) ==
    {i \in 1..Len(rows) : /\ rows[i].consultant_id = consultant_id
                          /\ rows[i].month = month}

RemoveAt(rows, i) == [j \in 1..(Len(rows) - 1) |-> IF j < i THEN rows[j] ELSE rows[j + 1]]

\* The id SQLite gives a new consultant row: one more than the largest.
NewConsultantId(ids) ==
    IF ids = {} THEN 1 ELSE 1 + CHOOSE m \in ids : \A i \in ids : i <= m

\* Lines 465-476: add or update the consultant's level of the named skill.
AddOrUpdateSkill(rows, consultant_id, skill_id, level) ==
    LET cs == FirstIndex(SkillRowsOf(rows, consultant_id, skill_id))
    IN  IF cs # 0
        THEN [rows EXCEPT ![cs].level = level]
        ELSE Append(rows, ConsultantSkill(consultant_id, skill_id, level))

SaveSkillLevel_mut_add(rows, consultant_id, skill_id, level) ==
    IF level >= 1
    THEN Append(rows, ConsultantSkill(consultant_id, skill_id, level))
    ELSE rows

\* Lines 484-501: one pass of the "Update skills" loop.
SaveSkillLevel(rows, consultant_id, skill_id, level) ==
    LET existing_cs == FirstIndex(SkillRowsOf(rows, consultant_id, skill_id))
    IN  IF level >= 1
        THEN (IF existing_cs # 0
              THEN [rows EXCEPT ![existing_cs].level = level]
              ELSE Append(rows, ConsultantSkill(consultant_id, skill_id, level)))
        ELSE (IF existing_cs # 0 THEN RemoveAt(rows, existing_cs) ELSE rows)

\* request.form.get(f'skill_level_{skill.id}')
SkillLevelField(form, skill_id) ==
    IF skill_id \in DOMAIN form.skill_level THEN form.skill_level[skill_id] ELSE None

\* Lines 479-501: the loop over Skill.query.all(), from skill id `skill` on.
RECURSIVE UpdateSkills(_, _, _, _, _)
UpdateSkills(rows, form, consultant_id, skill, last_skill) ==
    IF skill > last_skill THEN rows
    ELSE UpdateSkills(
            SaveSkillLevel(rows, consultant_id, skill,
                           safe_int(SkillLevelField(form, skill),
                                    PyInt(0), PyInt(0), PyInt(5)).v),
            form, consultant_id, skill + 1, last_skill)

\* Lines 505-522: one pass of the monthly workload loop.
SaveWorkload(rows, form, consultant_id, month) ==
    LET work_days == safe_int(form.work_days[month], PyInt(0), PyInt(0), None).v
        perceived == safe_int(form.perceived[month], PyInt(0), PyInt(0), PyInt(10)).v
        existing_wl == FirstIndex(WorkloadRowsOf(rows, consultant_id, month))
    IN  IF existing_wl # 0
        THEN [rows EXCEPT ![existing_wl].work_days = work_days,
                          ![existing_wl].perceived_load = perceived]
        ELSE Append(rows, WorkloadRow(consultant_id, month, work_days, perceived))

RECURSIVE UpdateWorkloads(_, _, _, _)
UpdateWorkloads(rows, form, consultant_id, month) ==
    IF month > LastMonth THEN rows
    ELSE UpdateWorkloads(SaveWorkload(rows, form, consultant_id, month),
                         form, consultant_id, month + 1)

\* What a request leaves: the store and how the request ended.
Handled(store, outcome, consultant_id) ==
    [db |-> store, outcome |-> outcome, consultant_id |-> consultant_id]

\* The POST branch of inserisci (lines 432-590) on a form without project
\* or experience fields, so that lines 524-586 add nothing.
inserisci(store, form) ==
    LET consultant_id == form.consultant_id
        consultant_name == Strip(form.consultant_name)
        existing == consultant_id.k = "str" /\ consultant_id.v # <<>>
                    /\ consultant_id.v # <<"n", "e", "w">>
        wanted == IF existing THEN IntOfStr(consultant_id.v) ELSE None
        id == IF existing THEN wanted.v ELSE NewConsultantId(store.consultants)
        new_skill_name == Strip(form.new_skill_name)
        new_skill_level == safe_int(form.new_skill_level, PyInt(0), PyInt(0), PyInt(5)).v
        found == FirstIndex({i \in 1..Len(store.skills) :
                                store.skills[i] = new_skill_name})
        skills == IF new_skill_name # <<>> /\ found = 0
                  THEN Append(store.skills, new_skill_name)
                  ELSE store.skills
        existing_skill == IF found # 0 THEN found ELSE Len(skills)
        with_new == IF new_skill_name # <<>> /\ new_skill_level >= 1
                    THEN AddOrUpdateSkill(store.consultant_skills, id,
                                          existing_skill, new_skill_level)
                    ELSE store.consultant_skills
    IN  IF consultant_name = <<>> THEN Handled(store, "name required", 0)
        ELSE IF existing /\ wanted.k # "int" THEN Handled(store, "ValueError", 0)
        ELSE IF existing /\ id \notin store.consultants THEN Handled(store, "not found", 0)
        ELSE Handled([consultants |-> store.consultants \cup {id},
                      skills |-> skills,
                      consultant_skills |->
                          UpdateSkills(with_new, form, id, 1, Len(skills)),
                      workloads |-> UpdateWorkloads(store.workloads, form, id, 1)],
                     "saved", id)

\* delete_consultant (lines 698-706): the cascade removes the consultant's
\* skill and workload rows with it.
delete_consultant(store, consultant_id) ==
    LET Others(row) == row.consultant_id # consultant_id
    IN  IF consultant_id \notin store.consultants
        THEN Handled(store, "404", 0)
        ELSE Handled([store EXCEPT
                        !.consultants = @ \ {consultant_id},
                        !.consultant_skills = SelectSeq(@, Others),
                        !.workloads = SelectSeq(@, Others)],
                     "deleted", consultant_id)

\* The forms posted.  Field values are the strings of the request, None
\* when the field is absent.
ConsultantIdFields == {PyStr(<<"n", "e", "w">>), PyStr(<<"1">>), PyStr(<<"x">>)}

NewSkillNameFields == {<<>>, <<"A", "I">>, <<" ", "R", "u", "s", "t">>}

NewSkillLevelFields == {None, PyStr(<<"3">>), PyStr(<<"9">>)}

\* skill_level_<id> for the ids of the base skills and of the next skill.
SkillLevelForms ==
    LET ids == 1..(Len(BASE_SKILLS) + 1)
    IN  {[i \in ids |-> None],
         [i \in ids |-> IF i = 3 THEN PyStr(<<"3">>) ELSE None],
         [i \in ids |-> IF i = Len(BASE_SKILLS) + 1 THEN PyStr(<<"7">>)
                        ELSE IF i = 1 THEN PyStr(<<"4">>) ELSE None]}

\* work_days_<month> and perceived_<month> for every month.
WorkloadForms ==
    {[work_days |-> [m \in 1..LastMonth |-> None],
      perceived |-> [m \in 1..LastMonth |-> None]],
     [work_days |-> [m \in 1..LastMonth |->
                        IF m = 1 THEN PyStr(<<"-", "3">>) ELSE PyStr(<<"2", "0">>)],
      perceived |-> [m \in 1..LastMonth |->
                        IF m = 1 THEN PyStr(<<"1", "1">>) ELSE PyStr(<<"4">>)]]}

NamedForms ==
    {[consultant_id |-> c, consultant_name |-> <<" ", "A", "n">>,
      new_skill_name |-> s, new_skill_level |-> l, skill_level |-> f,
      work_days |-> w.work_days, perceived |-> w.perceived] :
        c \in ConsultantIdFields,
        s \in NewSkillNameFields, l \in NewSkillLevelFields,
        f \in SkillLevelForms, w \in WorkloadForms}

\* The named forms and one form with a blank consultant name.
Forms ==
    NamedForms \cup
    {[form EXCEPT !.consultant_name = <<" ">>] :
        form \in {named \in NamedForms :
                    /\ named.consultant_id = PyStr(<<"1">>)
                    /\ named.new_skill_name = <<>>
                    /\ named.new_skill_level = None
                    /\ \A i \in DOMAIN named.skill_level : named.skill_level[i] = None
                    /\ named.work_days[1] = None}}

\* The last request: what it asked about the new skill and how it ended.
LastRequest(route, posted_id, handled_as, new_skill_name, new_skill_level) ==
    [route |-> route, posted_id |-> posted_id, outcome |-> handled_as.outcome,
     consultant_id |-> handled_as.consultant_id,
     new_skill_name |-> new_skill_name, new_skill_level |-> new_skill_level]

InitStore ==
    /\ db = SeededStore /\ handled = 0 /\ last = Unused
    /\ ClockUnused /\ WorkloadUnused /\ SkillFitUnused /\ FinalScoreUnused /\ SimilarityUnused
    /\ MatchUnused /\ CallUnused

Inserisci ==
    \E form \in Forms :
        LET done == inserisci(db, form) IN
        /\ handled < MaxRequests
        /\ db' = done.db
        /\ handled' = handled + 1
        /\ last' = LastRequest("inserisci", form.consultant_id, done, Strip(form.new_skill_name),
                               form.new_skill_level)
        /\ UNCHANGED <<wlVars, sfVars, fsVars, simVars, matchVars, callVars>>

DeleteConsultant ==
    \E consultant_id \in 1..MaxRequests :
        LET done == delete_consultant(db, consultant_id) IN
        /\ handled < MaxRequests
        /\ db' = done.db
        /\ handled' = handled + 1
        /\ last' = LastRequest("delete_consultant", PyInt(consultant_id), done, <<>>, None)
        /\ UNCHANGED <<wlVars, sfVars, fsVars, simVars, matchVars, callVars>>

NextStore == Inserisci \/ DeleteConsultant

SpecStore == InitStore /\ [][NextStore]_vars

(***************************************************************************)
(* C18: after any sequence of consultant save requests and consultant      *)
(* deletions the store holds at most one MonthlyWorkload row per           *)
(* (consultant, month), with work_days >= 0 and perceived_load in 0..10,   *)
(* and at most one ConsultantSkill row per (consultant, skill), with       *)
(* level in 1..5.                                                          *)
(***************************************************************************)
C18_OneRowPerKey ==
    db # Unused =>
        /\ \A i, j \in 1..Len(db.workloads) :
              /\ db.workloads[i].consultant_id = db.workloads[j].consultant_id
              /\ db.workloads[i].month = db.workloads[j].month
              => i = j
        /\ \A i \in 1..Len(db.workloads) :
              /\ db.workloads[i].work_days >= 0
              /\ db.workloads[i].perceived_load \in 0..10
        /\ \A i, j \in 1..Len(db.consultant_skills) :
              /\ db.consultant_skills[i].consultant_id = db.consultant_skills[j].consultant_id
              /\ db.consultant_skills[i].skill_id = db.consultant_skills[j].skill_id
              => i = j
        /\ \A i \in 1..Len(db.consultant_skills) :
              db.consultant_skills[i].level \in 1..5

\* A consultant was saved and then saved again as an existing consultant:
\* the store holds a row for every month, month 1 with a perceived load
\* clamped to 10, and the skill a request created at a level clamped to 5.
C18_Witness ==
    /\ db # Unused /\ handled = 2
    /\ last.route = "inserisci" /\ last.outcome = "saved"
    /\ last.posted_id = PyStr(<<"1">>)
    /\ db.consultants = {1}
    /\ Len(db.workloads) = LastMonth
    /\ \E i \in 1..Len(db.workloads) :
          db.workloads[i].month = 1 /\ db.workloads[i].perceived_load = 10
    /\ Len(db.skills) = Len(BASE_SKILLS) + 1
    /\ \E i \in 1..Len(db.consultant_skills) :
          /\ db.consultant_skills[i].skill_id = Len(BASE_SKILLS) + 1
          /\ db.consultant_skills[i].level = 5

(***************************************************************************)
(* The recency label of the best match (SpecSimilarity).                   *)
(***************************************************************************)
\* The label that names the bucket of a recency factor (in hundredths).
LabelOfFactor(factor) ==
    CASE factor = 75 -> "Date non specificate"
      [] factor = 100 -> "Ultimo semestre"
      [] factor = 85 -> "Ultimo anno e mezzo"
      [] factor = 70 -> "Ultimi 3 anni"
      [] factor = 60 -> "Piu di 3 anni fa"

\* C19: the recency label in the returned best-match metadata names the
\* bucket of the recency factor that was multiplied into the winning
\* experience's similarity, although the factor and the label each read
\* the current date and the clock may advance between the two reads.
C19_LabelNamesFactorBucket ==
    (/\ sim_pc = "returned"
     /\ sim_ret.value[2].k = "info")
        => sim_ret.value[2].recency_desc
              = LabelOfFactor(sim_recency[FirstBest(sim_seen)])

(***************************************************************************)
(* The new skill of a save request (SpecStore).                            *)
(***************************************************************************)
\* The last request was a committed save that named a new skill and gave
\* it a level in 1..5.
SavedWithNewSkill ==
    /\ db # Unused /\ last # Unused
    /\ last.route = "inserisci" /\ last.outcome = "saved"
    /\ last.new_skill_name # <<>>
    /\ last.new_skill_level.k = "str"
    /\ IntOfStr(last.new_skill_level.v).k = "int"
    /\ IntOfStr(last.new_skill_level.v).v \in 1..5

\* The levels at which the store has the consultant hold the named skill.
LevelsHeld(consultant_id, skill_name) ==
    {db.consultant_skills[i].level :
        i \in {j \in 1..Len(db.consultant_skills) :
                /\ db.consultant_skills[j].consultant_id = consultant_id
                /\ db.skills[db.consultant_skills[j].skill_id] = skill_name}}

\* C20: after a committed save request with a non-empty new_skill_name and
\* a new_skill_level in 1..5, the saved consultant holds the named skill at
\* exactly that level, whether or not the skill was in the catalogue.
C20_NewSkillHeldAtLevel ==
    SavedWithNewSkill =>
        LevelsHeld(last.consultant_id, last.new_skill_name)
            = {IntOfStr(last.new_skill_level.v).v}

====
